---- MODULE Spec2Model ----
(***************************************************************************)
(* straggler-shield: the reconciliation controller (pkg/k8s), the event    *)
(* loop (cmd/agent) that drives it and the pulse pipeline (pkg/pulse), as  *)
(* a state machine.                                                        *)
(*                                                                         *)
(* Time is counted in seconds (node timestamps, the ready window); a pulse *)
(* duration (time.Duration) is counted in microseconds.                    *)
(***************************************************************************)
EXTENDS Integers, Sequences, FiniteSets, TLC

(***************************************************************************)
(* Bounds of the model.                                                    *)
(***************************************************************************)
MaxTasks == 2          \* tryReconcile goroutines that can be live at once
MaxEnvSteps == 2       \* clock advances plus Ready transitions the kubelet reports
MaxSleeps == 1         \* backoff sleeps of run() that Spec follows
MaxEvents == 3         \* Added/Modified events recorded per watch stream

(***************************************************************************)
(* Program constants.                                                      *)
(***************************************************************************)
zombieTaintKey == "sunk.coreweave.com/zombie-quarantine"
zombieCondition == "GPUStraggler"
NodeReady == "Ready"
ConditionTrue == "True"
ConditionFalse == "False"
ConditionUnknown == "Unknown"
TaintEffectNoSchedule == "NoSchedule"
readyTransitionWindow == 300
NodeName == "gpu-node-0"
initialBackoff == 1    \* seconds
maxBackoff == 30       \* seconds

(***************************************************************************)
(* Sequence helpers.                                                       *)
(***************************************************************************)
RECURSIVE SelectIdx(_, _, _)
\* indices i >= from of s, ascending, kept as a sequence, for which keep[i]
SelectIdx(s, keep, from) ==
    IF from > Len(s) THEN <<>>
    ELSE IF keep[from] THEN <<s[from]>> \o SelectIdx(s, keep, from + 1)
    ELSE SelectIdx(s, keep, from + 1)

Min(S) == CHOOSE x \in S : \A y \in S : x <= y

(***************************************************************************)
(* Strings the program parses are written as sequences of one-character    *)
(* strings.  A 64-bit integer is written as its eight bytes, least         *)
(* significant first: the bit pattern of an int64 or a time.Duration, or   *)
(* the magnitude of a parsed number next to its sign.                      *)
(***************************************************************************)
DecimalDigits == <<"0", "1", "2", "3", "4", "5", "6", "7", "8", "9">>

IsDigit(c) == \E d \in DOMAIN DecimalDigits : DecimalDigits[d] = c

DigitValue(c) == (CHOOSE d \in DOMAIN DecimalDigits : DecimalDigits[d] = c) - 1

RECURSIVE Itoa(_)
\* strconv.Itoa of n >= 0
Itoa(n) ==
    IF n < 10 THEN <<DecimalDigits[n + 1]>>
    ELSE Itoa(n \div 10) \o <<DecimalDigits[(n % 10) + 1]>>

Zero64 == [i \in 1..8 |-> 0]

RECURSIVE MulAddFrom(_, _, _, _)
\* the bytes of w*c + carry from byte i on, the carry out as a ninth element
MulAddFrom(w, c, carry, i) ==
    IF i > Len(w) THEN <<carry>>
    ELSE LET x == w[i] * c + carry
         IN <<x % 256>> \o MulAddFrom(w, c, x \div 256, i + 1)

\* w*c + d in 64 bits, wrapping; c may be as large as 1000000
MulAdd64(w, c, d) == SubSeq(MulAddFrom(w, c, d, 1), 1, 8)

\* w*c + d does not fit 64 bits
MulAddCarries(w, c, d) == MulAddFrom(w, c, d, 1)[9] # 0

\* the two's complement of w
Negate64(w) == MulAdd64([i \in 1..8 |-> 255 - w[i]], 1, 1)

\* the sign bit of the bit pattern w
IsNegative64(w) == w[8] >= 128

RECURSIVE DivFrom(_, _, _, _)
\* long division of the bytes i..1 of w by c, with the remainder carried in
DivFrom(w, c, rem, i) ==
    IF i = 0 THEN <<>>
    ELSE LET x == rem * 256 + w[i]
         IN DivFrom(w, c, x % c, i - 1) \o <<x \div c>>

\* the magnitude w divided by c, truncated
Div64(w, c) == DivFrom(w, c, 0, 8)

\* a signed number: its sign and its magnitude
Signed(neg, mag) == [neg |-> neg /\ mag # Zero64, mag |-> mag]

\* the int64 with the bit pattern w
Int64(w) == IF IsNegative64(w) THEN Signed(TRUE, Negate64(w)) ELSE Signed(FALSE, w)

\* the bytes of a natural number
ToBytes(n) == MulAdd64(Zero64, 1, n)

\* a signed number that fits 31 bits, as a number
ToInt(v) ==
    LET n == v.mag[1] + 256 * v.mag[2] + 65536 * v.mag[3] + 16777216 * v.mag[4]
    IN IF v.neg THEN 0 - n ELSE n

RECURSIVE ParseUintFrom(_, _, _)
\* strconv.ParseUint's loop over the digits from i on: the magnitude, or
\* "syntax" at a character that is no digit, or "range" past 64 bits
ParseUintFrom(s, i, acc) ==
    IF i > Len(s) THEN [err |-> "", mag |-> acc]
    ELSE IF ~IsDigit(s[i]) THEN [err |-> "syntax", mag |-> Zero64]
    ELSE IF MulAddCarries(acc, 10, DigitValue(s[i])) THEN [err |-> "range", mag |-> Zero64]
    ELSE ParseUintFrom(s, i + 1, MulAdd64(acc, 10, DigitValue(s[i])))

\* strconv.ParseInt(s, 10, 64), strconv.Atoi(s): err is "" on success
ParseInt(s) ==
    LET neg == s # <<>> /\ s[1] = "-"
        from == IF s # <<>> /\ s[1] \in {"+", "-"} THEN 2 ELSE 1
        u == IF from > Len(s) THEN [err |-> "syntax", mag |-> Zero64]
             ELSE ParseUintFrom(s, from, Zero64)
        min == [i \in 1..8 |-> IF i = 8 THEN 128 ELSE 0]
    IN IF u.err # "" THEN [err |-> u.err, v |-> Signed(FALSE, Zero64)]
       ELSE IF IsNegative64(u.mag) /\ ~(neg /\ u.mag = min)
       THEN [err |-> "range", v |-> Signed(FALSE, Zero64)]
       ELSE [err |-> "", v |-> Signed(neg, u.mag)]

(***************************************************************************)
(* time.Duration.String() for the durations the pulse returns here         *)
(* (whole microseconds below one minute).                                  *)
(***************************************************************************)
RECURSIVE Digits(_, _)
\* the last w decimal digits of n, zero-padded
Digits(n, w) == IF w = 0 THEN "" ELSE Digits(n \div 10, w - 1) \o ToString(n % 10)

RECURSIVE FracDigits(_, _)
\* fmtFrac: n of 10^w as a fraction, trailing zeros dropped; "" for no fraction
FracDigits(n, w) ==
    IF n = 0 THEN ""
    ELSE IF n % 10 = 0 THEN FracDigits(n \div 10, w - 1)
    ELSE "." \o Digits(n, w)

DurationString(d) ==
    IF d = 0 THEN "0s"
    ELSE IF d < 1000 THEN ToString(d) \o "\\u00b5s"      \* U+00B5, the micro sign
    ELSE IF d < 1000000
         THEN ToString(d \div 1000) \o FracDigits(d % 1000, 3) \o "ms"
    ELSE ToString(d \div 1000000) \o FracDigits(d % 1000000, 6) \o "s"

(***************************************************************************)
(* Go errors.  An error value is written as its Unwrap chain, outermost    *)
(* layer first: a sentinel is a chain of one, fmt.Errorf with %w and the   *)
(* PulseFailure carrier put a layer in front of the error they wrap, and   *)
(* fmt.Errorf without %w starts a chain of its own.  nil is the empty      *)
(* chain.                                                                  *)
(***************************************************************************)
nil == <<>>
ErrStragglerDetected == <<"ErrStragglerDetected">>
ErrHighVariance == <<"ErrHighVariance">>
ErrInterconnectDegraded == <<"ErrInterconnectDegraded">>

\* errors.New(text), fmt.Errorf(text) with no %w verb
errorString(text) == <<text>>

\* fmt.Errorf("... %w ...", err)
wrapError(err) == <<"*fmt.wrapError">> \o err

\* &PulseFailure{Cause: cause}
PulseFailure(cause) == <<"*pulse.PulseFailure">> \o cause

\* err.Unwrap()
Unwrap(err) == Tail(err)

RECURSIVE errorsIs(_, _)
\* errors.Is: err or an error it wraps is the target
errorsIs(err, target) ==
    IF err = nil THEN FALSE
    ELSE err = target \/ errorsIs(Unwrap(err), target)

\* errors.As(err, &detail) for *PulseFailure
errorsAsPulseFailure(err) == \E i \in DOMAIN err : err[i] = "*pulse.PulseFailure"

\* IsStragglerErr without the interconnect sentinel
IsStragglerErr_noInterconnect(err) ==
    \/ errorsIs(err, ErrStragglerDetected)
    \/ errorsIs(err, ErrHighVariance)

\* pulse.IsStragglerErr
IsStragglerErr(err) ==
    \/ errorsIs(err, ErrStragglerDetected)
    \/ errorsIs(err, ErrHighVariance)
    \/ errorsIs(err, ErrInterconnectDegraded)

\* ReconcileNode: the reason labels of gpu_validator_straggler_detected_total
\* that a pulse result increments, in order
promReason(err) ==
    IF err = nil THEN <<>>
    ELSE IF IsStragglerErr(err)
    THEN IF errorsIs(err, ErrHighVariance) THEN <<"high_variance">>
         ELSE IF errorsIs(err, ErrInterconnectDegraded) THEN <<"interconnect_degraded">>
         ELSE <<"latency_threshold_exceeded">>
    ELSE <<"pre_flight_failure">>

(***************************************************************************)
(* pkg/pulse: thresholds and the pure parts of the pipeline.  Bandwidth is *)
(* counted in tenths of a GB/s; the limit on the coefficient of variation  *)
(* is kept as a fraction.                                                  *)
(***************************************************************************)
pulseRuns == 5
stragglerThreshold == 500000       \* the 500ms fallback, in microseconds
maxCoefficientOfVarNum == 1        \* 0.20 = 1/5
maxCoefficientOfVarDen == 5
minP2PBandwidthGBs == 50           \* 5.0 GB/s
maxIdleTempC == 70
minClockPercent == 50              \* minClockFraction = 0.5
GPU_PULSE_OK == 0
GPU_PULSE_ERR_CUDA == 1
GPU_PULSE_ERR_OOM == 2
GPU_PULSE_ERR_P2P == 3

gpuStats(sm, max, temp, ecc) ==
    [SMClockMHz |-> sm, MaxSMClockMHz |-> max, TempC |-> temp, ECCErrors |-> ecc]

\* what queryAllSMI returns: the rows, or an error (nvidia-smi absent or
\* erroring, or a row without four fields)
SMI(stats) == [stats |-> stats, err |-> FALSE]
NoSMI == [stats |-> <<>>, err |-> TRUE]

NA == <<"N", "/", "A">>

\* queryAllSMI's parse of a field: N/A is 0, and so is what Atoi rejects.
\* The fields modelled have fewer than ten digits.
parse(s) ==
    IF s = NA \/ s = <<"[">> \o NA \o <<"]">> THEN 0
    ELSE LET p == ParseInt(s)
         IN IF p.err # "" THEN 0 ELSE ToInt(p.v)

\* queryAllSMI on what the nvidia-smi command gave: err for a failed exec,
\* else the lines of its output, each split at ", "; an empty line is <<>>
queryAllSMI(out) ==
    IF out.err THEN NoSMI
    ELSE LET rows == SelectSeq(out.lines, LAMBDA l : l # <<>>)
         IN IF \E i \in DOMAIN rows : Len(rows[i]) # 4 THEN NoSMI
            ELSE SMI([i \in DOMAIN rows |->
                        gpuStats(parse(rows[i][1]), parse(rows[i][2]),
                                 parse(rows[i][3]), parse(rows[i][4]))])

RECURSIVE preflightFrom_tempFirst(_, _)
\* a scan that looks at the temperature before the ECC count
preflightFrom_tempFirst(stats, i) ==
    IF i > Len(stats) THEN nil
    ELSE IF stats[i].TempC > maxIdleTempC
    THEN errorString("pre-flight GPU " \o ToString(i - 1) \o ": idle temperature")
    ELSE IF stats[i].ECCErrors > 0
    THEN errorString("pre-flight GPU " \o ToString(i - 1) \o ": uncorrectable ECC error(s)")
    ELSE preflightFrom_tempFirst(stats, i + 1)

RECURSIVE preflightFrom(_, _)
\* preflight's scan from device i on; the error of the first device that fails
preflightFrom(stats, i) ==
    IF i > Len(stats) THEN nil
    ELSE IF stats[i].ECCErrors > 0
    THEN errorString("pre-flight GPU " \o ToString(i - 1) \o ": uncorrectable ECC error(s)")
    ELSE IF stats[i].TempC > maxIdleTempC
    THEN errorString("pre-flight GPU " \o ToString(i - 1) \o ": idle temperature")
    ELSE preflightFrom(stats, i + 1)

\* a preflight that fails when nvidia-smi gives it no rows
preflight_needsProbe(smi) ==
    IF smi.err THEN errorString("pre-flight: nvidia-smi unavailable")
    ELSE preflightFrom(smi.stats, 1)

\* preflight on what queryAllSMI returned
preflight(smi) == IF smi.err THEN nil ELSE preflightFrom(smi.stats, 1)

RECURSIVE validateClocksFrom(_, _)
validateClocksFrom(stats, i) ==
    IF i > Len(stats) THEN nil
    ELSE IF stats[i].MaxSMClockMHz = 0 THEN validateClocksFrom(stats, i + 1)
    ELSE IF stats[i].SMClockMHz < (stats[i].MaxSMClockMHz * minClockPercent) \div 100
    THEN errorString("post-pulse GPU " \o ToString(i - 1) \o ": SM clock below floor")
    ELSE validateClocksFrom(stats, i + 1)

\* validateClocks on what queryAllSMI returned
validateClocks(smi) == IF smi.err THEN nil ELSE validateClocksFrom(smi.stats, 1)

\* deviceCount that hands on what gpu_device_count returned
deviceCount_noFloor(n) == n

\* deviceCount on what gpu_device_count() returned
deviceCount(n) == IF n < 1 THEN 1 ELSE n

RECURSIVE Sum(_)
Sum(s) == IF s = <<>> THEN 0 ELSE Head(s) + Sum(Tail(s))

\* computeStats: the mean, and the squared coefficient of variation as the
\* fraction <<numerator, denominator>>.  The runs modelled take whole
\* milliseconds, so the mean and the deltas are whole multiples of 100
\* microseconds, the unit the squares are taken in.
computeStats(durations) ==
    LET meanNs == Sum(durations) \div Len(durations)
        delta == [i \in DOMAIN durations |-> (durations[i] - meanNs) \div 100]
        variance == Sum([i \in DOMAIN durations |-> delta[i] * delta[i]])
        m == meanNs \div 100
    IN [mean |-> meanNs,
        cv2 |-> IF meanNs > 0 THEN <<variance, Len(durations) * m * m>> ELSE <<0, 1>>]

\* cv > maxCoefficientOfVar, on the squares
cvExceeds(cv2) ==
    cv2[1] * maxCoefficientOfVarDen * maxCoefficientOfVarDen
        > cv2[2] * maxCoefficientOfVarNum * maxCoefficientOfVarNum

\* runDevicePulse that types the error of a failed run as a straggler
gemmError_typed(rc) ==
    IF rc = GPU_PULSE_ERR_CUDA THEN wrapError(ErrStragglerDetected)
    ELSE IF rc = GPU_PULSE_ERR_OOM THEN wrapError(ErrStragglerDetected)
    ELSE errorString("gpu_pulse returned code " \o ToString(rc))

\* runDevicePulse: the error of a run whose return code is not GPU_PULSE_OK
gemmError(rc) ==
    IF rc = GPU_PULSE_ERR_CUDA THEN errorString("cuda error")
    ELSE IF rc = GPU_PULSE_ERR_OOM THEN errorString("out of device memory")
    ELSE errorString("gpu_pulse returned code " \o ToString(rc))

\* a verdict that looks at the variance before the mean
deviceVerdict_varianceFirst(st) ==
    IF cvExceeds(st.cv2)
    THEN PulseFailure(wrapError(ErrHighVariance))
    ELSE IF st.mean > stragglerThreshold
    THEN PulseFailure(wrapError(ErrStragglerDetected))
    ELSE nil

\* runDevicePulse: the verdict on five completed runs, mean before variance
deviceVerdict(st) ==
    IF st.mean > stragglerThreshold
    THEN PulseFailure(wrapError(ErrStragglerDetected))
    ELSE IF cvExceeds(st.cv2)
    THEN PulseFailure(wrapError(ErrHighVariance))
    ELSE nil

\* checkP2P that reports a slow link as a slow GPU
checkP2P_asLatency(rc, bw) ==
    IF rc # GPU_PULSE_OK THEN PulseFailure(wrapError(ErrInterconnectDegraded))
    ELSE IF bw < minP2PBandwidthGBs THEN PulseFailure(wrapError(ErrStragglerDetected))
    ELSE nil

\* checkP2P on what run_p2p_check returned: the code and the bandwidth
checkP2P(rc, bw) ==
    IF rc # GPU_PULSE_OK THEN PulseFailure(wrapError(ErrInterconnectDegraded))
    ELSE IF bw < minP2PBandwidthGBs THEN PulseFailure(wrapError(ErrInterconnectDegraded))
    ELSE nil

\* MeasuredValue, ThresholdValue and Unit of a PulseFailure; the zero value
\* stands for an error that is no carrier
Evidence(measured, threshold, unit) ==
    [measured |-> measured, threshold |-> threshold, unit |-> unit]

NoEvidence == Evidence(0, 0, "")

\* a carrier whose latency is rounded up to the next millisecond
MeasuredMS_roundedUp(d) == (d + 999) \div 1000

\* float64(d.Milliseconds()) of a duration that is not negative: the whole
\* milliseconds in it
MeasuredMS(d) == d \div 1000

\* the fields of the carrier that runDevicePulse or RunPulse builds around
\* ErrStragglerDetected for the mean d
latencyEvidence(d) == Evidence(MeasuredMS(d), MeasuredMS(stragglerThreshold), "ms")

\* runDevicePulse: the fields of the carrier of deviceVerdict; cv and its
\* threshold are held as their squares
deviceEvidence(st) ==
    IF st.mean > stragglerThreshold THEN latencyEvidence(st.mean)
    ELSE IF cvExceeds(st.cv2)
    THEN Evidence(st.cv2,
                  <<maxCoefficientOfVarNum * maxCoefficientOfVarNum,
                    maxCoefficientOfVarDen * maxCoefficientOfVarDen>>, "cv")
    ELSE NoEvidence

\* checkP2P: the fields of its carrier
p2pEvidence(rc, bw) ==
    IF rc # GPU_PULSE_OK THEN Evidence(0, minP2PBandwidthGBs, "gbs")
    ELSE IF bw < minP2PBandwidthGBs THEN Evidence(bw, minP2PBandwidthGBs, "gbs")
    ELSE NoEvidence

(***************************************************************************)
(* Node objects: taints (key, value, effect) and conditions.               *)
(***************************************************************************)
Taint(k, v, e) == [key |-> k, value |-> v, effect |-> e]

Condition(ty, st, re, msg, at) ==
    [type |-> ty, status |-> st, reason |-> re, message |-> msg,
     lastTransitionTime |-> at]

\* the taints of a node object that carry the quarantine key
QuarantineTaints(n) ==
    SelectIdx(n.taints,
              [i \in DOMAIN n.taints |-> n.taints[i].key = zombieTaintKey], 1)

\* the taints of a node object that carry another key, in order
OtherTaints(n) ==
    SelectIdx(n.taints,
              [i \in DOMAIN n.taints |-> n.taints[i].key # zombieTaintKey], 1)

\* the conditions of a node object of the GPUStraggler type
StragglerConditions(n) ==
    SelectIdx(n.conditions,
              [i \in DOMAIN n.conditions |-> n.conditions[i].type = zombieCondition], 1)

(***************************************************************************)
(* pkg/k8s: the pure parts of the controller.                              *)
(***************************************************************************)
\* justBecameReady without the window comparison
justBecameReady_anyAge(n, within, clock) ==
    \E i \in DOMAIN n.conditions :
        /\ n.conditions[i].type = NodeReady
        /\ n.conditions[i].status = ConditionTrue

\* justBecameReady: the first Ready=True condition decides
justBecameReady(n, within, clock) ==
    LET hits == {i \in DOMAIN n.conditions :
                    /\ n.conditions[i].type = NodeReady
                    /\ n.conditions[i].status = ConditionTrue}
    IN IF hits = {} THEN FALSE
       ELSE clock - n.conditions[Min(hits)].lastTransitionTime < within

\* IsNodeReady: the first Ready condition decides
IsNodeReady(n) ==
    LET hits == {i \in DOMAIN n.conditions : n.conditions[i].type = NodeReady}
    IN IF hits = {} THEN FALSE
       ELSE n.conditions[Min(hits)].status = ConditionTrue

\* upsertCondition that appends without looking for the type
upsertCondition_append(conditions, c) == Append(conditions, c)

\* upsertCondition that takes the old condition out and appends the new one
upsertCondition_moveLast(conditions, c) ==
    Append(SelectIdx(conditions,
                     [i \in DOMAIN conditions |-> conditions[i].type # c.type], 1), c)

\* upsertCondition: replace the first condition of the same type, else append
upsertCondition(conditions, c) ==
    LET hits == {i \in DOMAIN conditions : conditions[i].type = c.type}
    IN IF hits = {} THEN Append(conditions, c)
       ELSE [conditions EXCEPT ![Min(hits)] = c]

\* the GPUStraggler=True condition applyTaint records
StragglerDetected(elapsed, at) ==
    Condition(zombieCondition, ConditionTrue, "StragglerDetected",
              "GPU pulse took " \o DurationString(elapsed) \o " (threshold 500ms)", at)

\* applyTaint that taints with the effect of the taint controller's evictions
applyTaint_noExecute(n, elapsed, at) ==
    IF \E i \in DOMAIN n.taints : n.taints[i].key = zombieTaintKey
    THEN <<>>
    ELSE << [sub |-> "spec",
             body |-> Append(n.taints,
                             Taint(zombieTaintKey, DurationString(elapsed), "NoExecute"))],
            [sub |-> "status",
             body |-> upsertCondition(n.conditions, StragglerDetected(elapsed, at))] >>

\* applyTaint without the `skip if already tainted` loop
applyTaint_noSkip(n, elapsed, at) ==
    << [sub |-> "spec",
        body |-> Append(n.taints,
                        Taint(zombieTaintKey, DurationString(elapsed),
                              TaintEffectNoSchedule))],
       [sub |-> "status",
        body |-> upsertCondition(n.conditions, StragglerDetected(elapsed, at))] >>

\* applyTaint that patches the status before the spec
applyTaint_statusFirst(n, elapsed, at) ==
    IF \E i \in DOMAIN n.taints : n.taints[i].key = zombieTaintKey
    THEN <<>>
    ELSE << [sub |-> "status",
             body |-> upsertCondition(n.conditions, StragglerDetected(elapsed, at))],
            [sub |-> "spec",
             body |-> Append(n.taints,
                             Taint(zombieTaintKey, DurationString(elapsed),
                                   TaintEffectNoSchedule))] >>

\* applyTaint: the patches it issues, in order; each is issued only after
\* the one before it succeeded.  at is metav1.Now().
applyTaint(n, elapsed, at) ==
    IF \E i \in DOMAIN n.taints : n.taints[i].key = zombieTaintKey
    THEN <<>>
    ELSE << [sub |-> "spec",
             body |-> Append(n.taints,
                             Taint(zombieTaintKey, DurationString(elapsed),
                                   TaintEffectNoSchedule))],
            [sub |-> "status",
             body |-> upsertCondition(n.conditions, StragglerDetected(elapsed, at))] >>

\* the GPUStraggler=False condition removeTaint records
PulsePassed(at) ==
    Condition(zombieCondition, ConditionFalse, "PulsePassed",
              "GPU pulse passed; node cleared for Slurm scheduling", at)

\* removeTaint with the filter inverted (keeps the zombie taints only)
removeTaint_inverted(n, at) ==
    LET filtered == SelectIdx(n.taints,
                        [i \in DOMAIN n.taints |-> n.taints[i].key = zombieTaintKey], 1)
    IN IF Len(filtered) = Len(n.taints)
       THEN <<>>
       ELSE << [sub |-> "spec", body |-> filtered],
               [sub |-> "status",
                body |-> upsertCondition(n.conditions, PulsePassed(at))] >>

\* removeTaint that patches an empty taints array
removeTaint_dropsAll(n, at) ==
    LET filtered == SelectIdx(n.taints,
                        [i \in DOMAIN n.taints |-> n.taints[i].key # zombieTaintKey], 1)
    IN IF Len(filtered) = Len(n.taints)
       THEN <<>>
       ELSE << [sub |-> "spec", body |-> <<>>],
               [sub |-> "status",
                body |-> upsertCondition(n.conditions, PulsePassed(at))] >>

\* removeTaint without the `nothing to remove` return
removeTaint_noSkip(n, at) ==
    LET filtered == SelectIdx(n.taints,
                        [i \in DOMAIN n.taints |-> n.taints[i].key # zombieTaintKey], 1)
    IN << [sub |-> "spec", body |-> filtered],
          [sub |-> "status",
           body |-> upsertCondition(n.conditions, PulsePassed(at))] >>

\* removeTaint: the patches it issues, in order
removeTaint(n, at) ==
    LET filtered == SelectIdx(n.taints,
                        [i \in DOMAIN n.taints |-> n.taints[i].key # zombieTaintKey], 1)
    IN IF Len(filtered) = Len(n.taints)
       THEN <<>>
       ELSE << [sub |-> "spec", body |-> filtered],
               [sub |-> "status",
                body |-> upsertCondition(n.conditions, PulsePassed(at))] >>

\* What a merge patch does to the stored node: the named array is replaced.
MergePatch(n, p) ==
    IF p.sub = "spec" THEN [n EXCEPT !.taints = p.body]
    ELSE [n EXCEPT !.conditions = p.body]

\* a TryLock that always reports success
TryLock_always(locked) == TRUE

\* sync.Mutex.TryLock on a mutex whose state is locked: TRUE iff acquired
TryLock(locked) == ~locked

\* sync.Map.LoadOrStore(nodeName, &sync.Mutex{})
LoadOrStore(m, k) ==
    IF k \in DOMAIN m THEN m ELSE [x \in DOMAIN m \cup {k} |-> IF x = k THEN FALSE ELSE m[x]]

(***************************************************************************)
(* State.                                                                  *)
(***************************************************************************)
VARIABLES
    node,        \* the node object stored by the cluster API
    now,         \* wall clock, seconds
    pc,          \* where run() is: "Watch", "select", "sleep" or "return"
    backoff,     \* run's backoff, seconds
    ctxDone,     \* TRUE once the context is cancelled (SIGINT/SIGTERM)
    wasReady,    \* watchOnce's shadow of the last ready value seen
    nodeLocks,   \* sync.Map: node name -> mutex state (TRUE = locked)
    pending,     \* goroutines started by `go tryReconcile(...)`, not yet at TryLock
    tasks,       \* the goroutines past TryLock, in the order they took the lock
    discarded,   \* TRUE when a duplicate event was discarded under the present lock holder
    last,        \* the outcome of the ReconcileNode call that finished last
    envSteps,    \* clock advances and Ready transitions so far
    hist,        \* the Added/Modified node events this watch stream has delivered
    rp,          \* the frame of pulse.RunPulse, while the lock holder is in it
    pkg,         \* the environment and the package-level variables initialised from it
    lib          \* the last call into the native library libgpu_pulse, and its result

vars == <<node, now, pc, backoff, ctxDone, wasReady, nodeLocks, pending, tasks,
          discarded, last, envSteps, hist, rp, pkg, lib>>

\* run() and watchOnce() own these
loopVars == <<pc, backoff, wasReady>>

NoNode == [taints |-> <<>>, conditions |-> <<>>]

\* a goroutine that has just taken the lock and is about to call ReconcileNode
NewTask ==
    [pc |-> "Get", node |-> NoNode, fetchedAt |-> 0 - 1, elapsed |-> 0,
     err |-> nil, incs |-> <<>>, issued |-> 0, ret |-> "none",
     gets |-> 0, pulses |-> 0, patches |-> 0]

\* no ReconcileNode call has finished yet
NoCall ==
    [ret |-> "none", pulses |-> 0, err |-> nil, others |-> <<>>,
     taints |-> <<>>, straggler |-> <<>>]

(***************************************************************************)
(* The nodes the agent can find in the cluster when it starts.             *)
(***************************************************************************)
OtherTaint == Taint("example.com/maintenance", "", "NoExecute")
ZombieNoSchedule == Taint(zombieTaintKey, "820ms", TaintEffectNoSchedule)
ZombieNoExecute == Taint(zombieTaintKey, "", "NoExecute")

ReadyCondition(st, at) == Condition(NodeReady, st, "KubeletReady", "", at)

StragglerTrue ==
    Condition(zombieCondition, ConditionTrue, "StragglerDetected",
              "GPU pulse took 820ms (threshold 500ms)", 0 - 7200)

StragglerFalse ==
    Condition(zombieCondition, ConditionFalse, "PulsePassed",
              "GPU pulse passed; node cleared for Slurm scheduling", 0 - 7200)

\* freshNode(name, age) of the tests: Ready=True since `age` seconds
freshNode(age) ==
    [taints |-> <<>>, conditions |-> <<ReadyCondition(ConditionTrue, 0 - age)>>]

\* quarantinedNode(name, age) of the tests: freshNode plus the zombie taint
quarantinedNode(age) == [freshNode(age) EXCEPT !.taints = <<ZombieNoSchedule>>]

StartNodes ==
    { freshNode(240),
      quarantinedNode(240),
      \* a steady-state node that was cleared long ago
      [taints |-> <<OtherTaint>>,
       conditions |-> <<ReadyCondition(ConditionTrue, 0 - 7200), StragglerFalse>>],
      \* a node quarantined by an earlier run of the agent, rebooted since
      [taints |-> <<ZombieNoSchedule, OtherTaint>>,
       conditions |-> <<StragglerTrue, ReadyCondition(ConditionTrue, 0 - 240)>>],
      \* the quarantine key under another effect, set by someone else
      [taints |-> <<ZombieNoExecute>>,
       conditions |-> <<ReadyCondition(ConditionTrue, 0 - 240)>>],
      \* the quarantine key twice, under two effects
      [taints |-> <<ZombieNoSchedule, ZombieNoExecute>>,
       conditions |-> <<ReadyCondition(ConditionTrue, 0 - 240), StragglerTrue>>],
      \* a node that has not reported a Ready condition yet
      NoNode,
      \* the taint was taken off by hand, the condition stayed
      [taints |-> <<OtherTaint>>,
       conditions |-> <<ReadyCondition(ConditionTrue, 0 - 240), StragglerTrue>>] }

\* RunPulse has not been called.  wired is "RunPulse" in a Controller of
\* NewController, "stub" in one built without the cuda tag and "mock" in one
\* of newControllerWithPulse; rc is the return code of the last call into
\* the native library, probe the nvidia-smi output that preflight or
\* validateClocks is looking at, blind whether preflight had none to look at,
\* detail the fields of the PulseFailure that err is, if it is one.
Frame(wired) ==
    [pc |-> wired, count |-> 0, dev |-> 0, durations |-> <<>>, worstMean |-> 0,
     seg |-> 0, rc |-> GPU_PULSE_OK, elapsed |-> 0, err |-> nil, stage |-> "",
     calls |-> <<>>, observed |-> <<>>, probe |-> <<>>, blind |-> FALSE,
     detail |-> NoEvidence]

Injected == Frame("mock")

Wired == Frame("RunPulse")

Stubbed == Frame("stub")

\* what the injected pulse function can return: (elapsed, error)
PulseResults ==
    { [elapsed |-> 150000, err |-> nil],
      [elapsed |-> 600000, err |-> ErrStragglerDetected],
      [elapsed |-> 300000, err |-> ErrHighVariance],
      [elapsed |-> 0, err |-> ErrInterconnectDegraded],
      [elapsed |-> 600000, err |-> errorString("cuda error")] }

(***************************************************************************)
(* Package initialisation: the thresholds resolved from the environment    *)
(* (pkg/pulse/errors.go, pkg/k8s) and from the GPU name                    *)
(* (pkg/pulse/syscheck.go).  Strings are sequences of characters, int64    *)
(* and time.Duration (nanoseconds) are 64-bit patterns, a float64 is the   *)
(* rational its decimal text denotes.                                      *)
(***************************************************************************)
LowerCase == <<"a", "b", "c", "d", "e", "f", "g", "h", "i", "j", "k", "l", "m",
               "n", "o", "p", "q", "r", "s", "t", "u", "v", "w", "x", "y", "z">>

UpperCase == <<"A", "B", "C", "D", "E", "F", "G", "H", "I", "J", "K", "L", "M",
               "N", "O", "P", "Q", "R", "S", "T", "U", "V", "W", "X", "Y", "Z">>

\* strings.ToUpper
ToUpper(s) ==
    [i \in 1..Len(s) |->
        IF \E k \in DOMAIN LowerCase : LowerCase[k] = s[i]
        THEN UpperCase[CHOOSE k \in DOMAIN LowerCase : LowerCase[k] = s[i]]
        ELSE s[i]]

\* strings.Contains
Contains(s, substr) ==
    \E i \in 0..(Len(s) - Len(substr)) : SubSeq(s, i + 1, i + Len(substr)) = substr

IsSpace(c) == c \in {" ", "\n", "\t", "\r"}

RECURSIVE TrimSpace(_)
\* strings.TrimSpace
TrimSpace(s) ==
    IF s = <<>> THEN s
    ELSE IF IsSpace(s[1]) THEN TrimSpace(Tail(s))
    ELSE IF IsSpace(s[Len(s)]) THEN TrimSpace(SubSeq(s, 1, Len(s) - 1))
    ELSE s

RECURSIVE GCD(_, _)
GCD(a, b) == IF b = 0 THEN a ELSE GCD(b, a % b)

\* the finite float64 nearest to num/den, kept as that fraction in lowest terms
Float(neg, num, den) ==
    [class |-> "finite", neg |-> neg, num |-> num \div GCD(num, den),
     den |-> den \div GCD(num, den)]

NaN == [class |-> "NaN", neg |-> FALSE, num |-> 0, den |-> 0]

Inf(neg) == [class |-> "Inf", neg |-> neg, num |-> 1, den |-> 0]

\* v > 0 on float64: false for NaN, for zero of either sign and below zero
FloatPositive(v) == v.class # "NaN" /\ ~v.neg /\ v.num > 0

RECURSIVE DigitsValue(_)
\* the number a string of digits denotes
DigitsValue(s) ==
    IF s = <<>> THEN 0
    ELSE 10 * DigitsValue(SubSeq(s, 1, Len(s) - 1)) + DigitValue(s[Len(s)])

RECURSIVE Pow10(_)
Pow10(n) == IF n = 0 THEN 1 ELSE 10 * Pow10(n - 1)

\* strconv.ParseFloat(s, 64) on decimal text without an exponent, and on the
\* special values: err is "" on success
ParseFloat(s) ==
    LET signed == s # <<>> /\ s[1] \in {"+", "-"}
        neg == s # <<>> /\ s[1] = "-"
        body == IF signed THEN Tail(s) ELSE s
        points == {i \in DOMAIN body : body[i] = "."}
        whole == SelectSeq(body, LAMBDA c : c # ".")
        \* where the fraction starts: the point, or the end of the text
        point == IF points = {} THEN Len(body) ELSE CHOOSE i \in points : TRUE
    IN IF ToUpper(s) = <<"N", "A", "N">> THEN [err |-> "", v |-> NaN]
       ELSE IF ToUpper(body) \in {<<"I", "N", "F">>,
                                  <<"I", "N", "F", "I", "N", "I", "T", "Y">>}
       THEN [err |-> "", v |-> Inf(neg)]
       ELSE IF \/ Cardinality(points) > 1
               \/ whole = <<>>
               \/ \E i \in DOMAIN whole : ~IsDigit(whole[i])
       THEN [err |-> "syntax", v |-> Float(FALSE, 0, 1)]
       ELSE [err |-> "", v |-> Float(neg, DigitsValue(whole), Pow10(Len(body) - point))]

PULSE_THRESHOLD_MS == "PULSE_THRESHOLD_MS"

PULSE_CV_MAX == "PULSE_CV_MAX"

P2P_MIN_GBS == "P2P_MIN_GBS"

IDLE_TEMP_MAX == "IDLE_TEMP_MAX"

READY_WINDOW_SECONDS == "READY_WINDOW_SECONDS"

EnvKeys == {PULSE_THRESHOLD_MS, PULSE_CV_MAX, P2P_MIN_GBS, IDLE_TEMP_MAX,
            READY_WINDOW_SECONDS}

\* os.Getenv gives "" for a variable that is not set
NoEnv == [k \in EnvKeys |-> <<>>]

\* v > 0 on int64
IntPositive(v) == ~v.neg /\ v.mag # Zero64

\* time.Duration(v) * unit for a unit of `thousands` factors of 1000
\* nanoseconds: an int64 multiplication, which wraps around
DurationOf(v, thousands) ==
    LET w == IF v.neg THEN Negate64(v.mag) ELSE v.mag
        k == MulAdd64(w, 1000, 0)
        m == IF thousands >= 2 THEN MulAdd64(k, 1000, 0) ELSE k
    IN IF thousands >= 3 THEN MulAdd64(m, 1000, 0) ELSE m

\* Duration.Milliseconds(): int64(d) / 1e6, truncated toward zero
Milliseconds(d) == Signed(Int64(d).neg, Div64(Int64(d).mag, 1000000))

\* Duration.Seconds(), truncated toward zero
WholeSeconds(d) == Signed(Int64(d).neg, Div64(Div64(Int64(d).mag, 1000000), 1000))

envFloat64(env, key, def) ==
    IF env[key] # <<>> /\ ParseFloat(env[key]).err = ""
                       /\ FloatPositive(ParseFloat(env[key]).v)
    THEN ParseFloat(env[key]).v
    ELSE def

envInt(env, key, def) ==
    IF env[key] # <<>> /\ ParseInt(env[key]).err = "" /\ IntPositive(ParseInt(env[key]).v)
    THEN ParseInt(env[key]).v
    ELSE def

\* out is what `nvidia-smi --query-gpu=name --id=0` printed, or its failure
DetectGPUName(out) ==
    IF out.err THEN <<"u", "n", "k", "n", "o", "w", "n">>
    ELSE IF TrimSpace(out.text) = <<>> THEN <<"u", "n", "k", "n", "o", "w", "n">>
    ELSE TrimSpace(out.text)

detectGPUThreshold(out) ==
    LET name == ToUpper(DetectGPUName(out))
    IN IF Contains(name, <<"B", "2", "0", "0">>) \/ Contains(name, <<"G", "B", "2", "0", "0">>)
       THEN DurationOf(Signed(FALSE, ToBytes(15)), 2)
       ELSE IF Contains(name, <<"H", "1", "0", "0">>) \/ Contains(name, <<"H", "2", "0", "0">>)
       THEN DurationOf(Signed(FALSE, ToBytes(35)), 2)
       ELSE IF Contains(name, <<"A", "1", "0", "0">>)
       THEN DurationOf(Signed(FALSE, ToBytes(100)), 2)
       ELSE DurationOf(Signed(FALSE, ToBytes(stragglerThreshold)), 1)

\* the initialiser of pulse.stragglerThreshold
stragglerThresholdFrom(env, out) ==
    IF env[PULSE_THRESHOLD_MS] # <<>>
       /\ ParseInt(env[PULSE_THRESHOLD_MS]).err = ""
       /\ IntPositive(ParseInt(env[PULSE_THRESHOLD_MS]).v)
    THEN DurationOf(ParseInt(env[PULSE_THRESHOLD_MS]).v, 2)
    ELSE detectGPUThreshold(out)

\* the initialiser of k8s.readyTransitionWindow
readyTransitionWindowFrom(env) ==
    IF env[READY_WINDOW_SECONDS] # <<>>
       /\ ParseInt(env[READY_WINDOW_SECONDS]).err = ""
       /\ IntPositive(ParseInt(env[READY_WINDOW_SECONDS]).v)
    THEN DurationOf(ParseInt(env[READY_WINDOW_SECONDS]).v, 3)
    ELSE DurationOf(Signed(FALSE, ToBytes(readyTransitionWindow)), 3)

\* the process before its packages are initialised
Uninitialised(env) ==
    [init |-> FALSE, env |-> env, name |-> [err |-> TRUE, text |-> <<>>],
     stragglerThreshold |-> Zero64,
     maxCoefficientOfVar |-> Float(FALSE, 0, 1),
     minP2PBandwidthGBs |-> Float(FALSE, 0, 1),
     maxIdleTempC |-> Signed(FALSE, Zero64),
     readyTransitionWindow |-> Zero64]

\* the package-level variables after initialisation
Initialised(env, out) ==
    [init |-> TRUE, env |-> env, name |-> out,
     stragglerThreshold |-> stragglerThresholdFrom(env, out),
     maxCoefficientOfVar |->
         envFloat64(env, PULSE_CV_MAX,
                    Float(FALSE, maxCoefficientOfVarNum, maxCoefficientOfVarDen)),
     minP2PBandwidthGBs |->
         envFloat64(env, P2P_MIN_GBS, Float(FALSE, minP2PBandwidthGBs, 10)),
     maxIdleTempC |-> envInt(env, IDLE_TEMP_MAX, Signed(FALSE, ToBytes(maxIdleTempC))),
     readyTransitionWindow |-> readyTransitionWindowFrom(env)]

\* pulse.ThresholdMS()
ThresholdMS(p) == Milliseconds(p.stragglerThreshold)

\* the agent as it is run here: no override set, nvidia-smi not installed
Defaults == Initialised(NoEnv, [err |-> TRUE, text |-> <<>>])

(***************************************************************************)
(* libgpu_pulse (gpu_pulse.cu).  Each entry point is computed from the     *)
(* results of the runtime calls it makes: cuda gives, for every call site, *)
(* what that call returns if the function gets as far as making it.        *)
(***************************************************************************)
cudaSuccess == "cudaSuccess"

cudaErrorPeerAccessAlreadyEnabled == "cudaErrorPeerAccessAlreadyEnabled"

\* what a native call hands back: the return code, the value stored through
\* bandwidth_gbs (tenths of GB/s; 0 when nothing was stored)
NativeReturn(rc, bandwidth) == [rc |-> rc, bandwidth |-> bandwidth]

gpu_device_count(cuda) ==
    IF cuda.cudaGetDeviceCount # cudaSuccess
    THEN NativeReturn(0 - 1, 0)
    ELSE NativeReturn(cuda.n, 0)

\* the label oom of run_gpu_pulse: the host buffers are released
oom == NativeReturn(GPU_PULSE_ERR_CUDA, 0)

run_gpu_pulse(device_id, cuda) ==
    IF cuda.cudaSetDevice # cudaSuccess THEN NativeReturn(GPU_PULSE_ERR_CUDA, 0)
    ELSE IF ~cuda.h_A \/ ~cuda.h_B THEN NativeReturn(GPU_PULSE_ERR_OOM, 0)
    ELSE IF cuda.d_A # cudaSuccess THEN oom
    ELSE IF cuda.d_B # cudaSuccess THEN oom
    ELSE IF cuda.d_C # cudaSuccess THEN oom
    \* the results of cudaMemcpy, of the launches and of cudaDeviceSynchronize
    \* are not looked at
    ELSE NativeReturn(GPU_PULSE_OK, 0)

\* 100 MiB in elapsed_ms milliseconds, in tenths of GB/s
bandwidth_gbs(elapsed_ms) == (100 * 1024 * 1024) \div (elapsed_ms * 100000)

run_p2p_check(src_device, dst_device, cuda) ==
    LET can_access == IF cuda.cudaDeviceCanAccessPeer = cudaSuccess
                      THEN cuda.can_access ELSE 0
    IN  IF can_access = 0 THEN NativeReturn(GPU_PULSE_ERR_P2P, 0)
        ELSE IF cuda.cudaDeviceEnablePeerAccess
                    \notin {cudaSuccess, cudaErrorPeerAccessAlreadyEnabled}
        THEN NativeReturn(GPU_PULSE_ERR_P2P, 0)
        ELSE IF cuda.src_buf # cudaSuccess THEN NativeReturn(GPU_PULSE_ERR_OOM, 0)
        ELSE IF cuda.dst_buf # cudaSuccess THEN NativeReturn(GPU_PULSE_ERR_OOM, 0)
        \* elapsed_ms is whatever cudaEventElapsedTime stored, or what the
        \* stack held when it stored nothing
        ELSE NativeReturn(GPU_PULSE_OK, bandwidth_gbs(cuda.elapsed_ms))

\* no call into the library made yet
Unloaded == [fn |-> <<>>, cuda |-> <<>>, ret |-> NativeReturn(GPU_PULSE_OK, 0)]

\* the agent at the start of run(): nothing dispatched, no lock stored
Boot ==
    /\ now = 0
    /\ pc = "Watch"
    /\ backoff = initialBackoff
    /\ ctxDone = FALSE
    /\ wasReady = FALSE
    /\ nodeLocks = [k \in {} |-> FALSE]
    /\ pending = 0
    /\ tasks = <<>>
    /\ discarded = FALSE
    /\ last = NoCall
    /\ envSteps = 0
    /\ hist = <<>>
    /\ lib = Unloaded

Init ==
    /\ node \in StartNodes
    /\ Boot
    /\ rp = Injected
    /\ pkg = Defaults

(***************************************************************************)
(* The environment: the clock and the kubelet's Ready condition.           *)
(***************************************************************************)
\* a minute passes
Tick ==
    /\ envSteps < MaxEnvSteps
    /\ envSteps' = envSteps + 1
    /\ now' = now + 60
    /\ UNCHANGED <<node, loopVars, ctxDone, nodeLocks, pending, tasks, discarded, last,
                   hist, rp, pkg, lib>>

\* the status of the node's first Ready condition, "" when it has none
ReadyStatus(n) ==
    LET hits == {i \in DOMAIN n.conditions : n.conditions[i].type = NodeReady}
    IN IF hits = {} THEN "" ELSE n.conditions[Min(hits)].status

\* the kubelet reports a new Ready status; the transition time is the clock
KubeletSetReady(st) ==
    /\ envSteps < MaxEnvSteps
    /\ envSteps' = envSteps + 1
    /\ st # ReadyStatus(node)
    /\ node' = [node EXCEPT
                  !.conditions = upsertCondition(@, ReadyCondition(st, now))]
    /\ UNCHANGED <<now, loopVars, ctxDone, nodeLocks, pending, tasks, discarded, last,
                   hist, rp, pkg, lib>>

(***************************************************************************)
(* cmd/agent: the event loop.  The actions of run() and watchOnce() leave  *)
(* hist, the record of what the stream delivered, to the specification     *)
(* that uses them.                                                         *)
(***************************************************************************)
\* SIGINT or SIGTERM: signal.NotifyContext cancels ctx
cancel ==
    /\ ~ctxDone
    /\ ctxDone' = TRUE
    /\ UNCHANGED <<node, now, loopVars, nodeLocks, pending, tasks, discarded, last,
                   envSteps, hist, rp, pkg, lib>>

\* what the watch channel can deliver: the event type, and whether the
\* payload is a *corev1.Node (an ERROR event carries a *metav1.Status)
WatchEvents ==
    { [type |-> "ADDED", isNode |-> TRUE],
      [type |-> "MODIFIED", isNode |-> TRUE],
      [type |-> "DELETED", isNode |-> TRUE],
      [type |-> "BOOKMARK", isNode |-> TRUE],
      [type |-> "ERROR", isNode |-> FALSE],
      [type |-> "MODIFIED", isNode |-> FALSE] }

\* the event passes the two `continue` filters of watchOnce
Handled(ev) == ev.type \in {"MODIFIED", "ADDED"} /\ ev.isNode

\* watchOnce's Watch call that opens a stream for any context
run_Watch_ignoresCtx ==
    /\ pc = "Watch"
    /\ \/ pc' = "select"
       \/ pc' = IF ctxDone THEN "return" ELSE "sleep"
    /\ wasReady' = FALSE
    /\ UNCHANGED <<node, now, backoff, ctxDone, nodeLocks, pending, tasks, discarded,
                   last, envSteps, rp, pkg, lib>>

\* a watchOnce that opens the stream with the shadow set to the node's
\* present readiness
run_Watch_seeded ==
    /\ pc = "Watch"
    /\ \/ ~ctxDone /\ pc' = "select" /\ wasReady' = IsNodeReady(node)
       \/ pc' = (IF ctxDone THEN "return" ELSE "sleep") /\ wasReady' = FALSE
    /\ UNCHANGED <<node, now, backoff, ctxDone, nodeLocks, pending, tasks, discarded,
                   last, envSteps, rp, pkg, lib>>

\* run calls watchOnce, which calls Nodes().Watch(ctx, ...): the stream opens
\* with `var wasReady bool`, or the call fails (always, under a cancelled
\* context) and run returns or goes to sleep
run_Watch ==
    /\ pc = "Watch"
    /\ \/ ~ctxDone /\ pc' = "select"
       \/ pc' = IF ctxDone THEN "return" ELSE "sleep"
    /\ wasReady' = FALSE
    /\ UNCHANGED <<node, now, backoff, ctxDone, nodeLocks, pending, tasks, discarded,
                   last, envSteps, rp, pkg, lib>>

\* watchOnce_event that dispatches on every ready event
watchOnce_event_level(ev) ==
    /\ pc = "select"
    /\ IF Handled(ev)
       THEN LET ready == IsNodeReady(node)
            IN /\ IF ready
                  THEN /\ pending + Len(tasks) < MaxTasks
                       /\ pending' = pending + 1
                  ELSE UNCHANGED pending
               /\ wasReady' = ready
       ELSE UNCHANGED <<pending, wasReady>>
    /\ UNCHANGED <<node, now, pc, backoff, ctxDone, nodeLocks, tasks, discarded, last,
                   envSteps, rp, pkg, lib>>

\* watchOnce_event that keeps the shadow over a Ready status of Unknown
watchOnce_event_keepsOnUnknown(ev) ==
    /\ pc = "select"
    /\ IF Handled(ev)
       THEN LET ready == IsNodeReady(node)
            IN /\ IF ready /\ ~wasReady
                  THEN /\ pending + Len(tasks) < MaxTasks
                       /\ pending' = pending + 1
                  ELSE UNCHANGED pending
               /\ wasReady' = IF ReadyStatus(node) = ConditionUnknown
                              THEN wasReady ELSE ready
       ELSE UNCHANGED <<pending, wasReady>>
    /\ UNCHANGED <<node, now, pc, backoff, ctxDone, nodeLocks, tasks, discarded, last,
                   envSteps, rp, pkg, lib>>

\* watchOnce_event that calls ReconcileNode itself: it takes the next event
\* when no reconciliation is running
watchOnce_event_inline(ev) ==
    /\ pc = "select"
    /\ tasks = <<>>
    /\ IF Handled(ev)
       THEN LET ready == IsNodeReady(node)
            IN /\ IF ready /\ ~wasReady
                  THEN /\ pending + Len(tasks) < MaxTasks
                       /\ pending' = pending + 1
                  ELSE UNCHANGED pending
               /\ wasReady' = ready
       ELSE UNCHANGED <<pending, wasReady>>
    /\ UNCHANGED <<node, now, pc, backoff, ctxDone, nodeLocks, tasks, discarded, last,
                   envSteps, rp, pkg, lib>>

\* watchOnce_event without the two filters
watchOnce_event_unfiltered(ev) ==
    /\ pc = "select"
    /\ LET ready == IsNodeReady(node)
       IN /\ IF ready /\ ~wasReady
             THEN /\ pending + Len(tasks) < MaxTasks
                  /\ pending' = pending + 1
             ELSE UNCHANGED pending
          /\ wasReady' = ready
    /\ UNCHANGED <<node, now, pc, backoff, ctxDone, nodeLocks, tasks, discarded, last,
                   envSteps, rp, pkg, lib>>

\* watchOnce, one event from w.ResultChan(); an Added/Modified event carries
\* the node as it is now
watchOnce_event(ev) ==
    /\ pc = "select"
    /\ IF Handled(ev)
       THEN LET ready == IsNodeReady(node)
            IN /\ IF ready /\ ~wasReady
                  THEN /\ pending + Len(tasks) < MaxTasks
                       /\ pending' = pending + 1       \* go tryReconcile(...)
                  ELSE UNCHANGED pending
               /\ wasReady' = ready
       ELSE UNCHANGED <<pending, wasReady>>
    /\ UNCHANGED <<node, now, pc, backoff, ctxDone, nodeLocks, tasks, discarded, last,
                   envSteps, rp, pkg, lib>>

\* a run that takes the delay back to its start when the stream ends by a
\* cooperative close
watchOnce_closed_resets ==
    /\ pc = "select"
    /\ pc' = IF ctxDone THEN "return" ELSE "sleep"
    /\ wasReady' = FALSE
    /\ backoff' = initialBackoff
    /\ UNCHANGED <<node, now, ctxDone, nodeLocks, pending, tasks, discarded,
                   last, envSteps, rp, pkg, lib>>

\* the server closes the stream: watchOnce returns nil and its shadow is gone;
\* run returns if ctx.Err() != nil, else goes to the backoff select
watchOnce_closed ==
    /\ pc = "select"
    /\ pc' = IF ctxDone THEN "return" ELSE "sleep"
    /\ wasReady' = FALSE
    /\ UNCHANGED <<node, now, backoff, ctxDone, nodeLocks, pending, tasks, discarded,
                   last, envSteps, rp, pkg, lib>>

\* watchOnce without `case <-ctx.Done()`
watchOnce_ctxDone_never ==
    /\ FALSE
    /\ UNCHANGED vars

\* watchOnce: `case <-ctx.Done(): return nil`, then run's ctx.Err() != nil
watchOnce_ctxDone ==
    /\ pc = "select"
    /\ ctxDone
    /\ pc' = "return"
    /\ wasReady' = FALSE
    /\ UNCHANGED <<node, now, backoff, ctxDone, nodeLocks, pending, tasks, discarded,
                   last, envSteps, rp, pkg, lib>>

\* min(backoff*2, maxBackoff) without the cap
NextBackoff_uncapped(b) == b * 2

\* min(backoff*2, maxBackoff)
NextBackoff(b) == IF b * 2 < maxBackoff THEN b * 2 ELSE maxBackoff

\* run: `case <-time.After(backoff)`, the next iteration calls watchOnce
run_backoff ==
    /\ pc = "sleep"
    /\ backoff' = NextBackoff(backoff)
    /\ pc' = "Watch"
    /\ UNCHANGED <<node, now, ctxDone, wasReady, nodeLocks, pending, tasks, discarded,
                   last, envSteps, rp, pkg, lib>>

\* the backoff value after which Spec stops following run()
SleepLimit == 2 ^ MaxSleeps

\* run: `case <-ctx.Done(): return` in the backoff select
run_ctxDone ==
    /\ pc = "sleep"
    /\ ctxDone
    /\ pc' = "return"
    /\ UNCHANGED <<node, now, backoff, ctxDone, wasReady, nodeLocks, pending, tasks,
                   discarded, last, envSteps, rp, pkg, lib>>

(***************************************************************************)
(* cmd/agent tryReconcile and pkg/k8s ReconcileNode, step by step.         *)
(***************************************************************************)
\* LoadOrStore + TryLock; a held lock discards the event
tryReconcile ==
    /\ pending > 0
    /\ pending' = pending - 1
    /\ LET m == LoadOrStore(nodeLocks, NodeName)
       IN IF TryLock(m[NodeName])
          THEN /\ nodeLocks' = [m EXCEPT ![NodeName] = TRUE]
               /\ tasks' = Append(tasks, NewTask)
               /\ UNCHANGED discarded
          ELSE /\ nodeLocks' = m
               /\ discarded' = TRUE
               /\ UNCHANGED tasks
    /\ UNCHANGED <<node, now, loopVars, ctxDone, last, envSteps, hist, rp, pkg, lib>>

\* ReconcileNode: Nodes().Get, then the recency gate
ReconcileNode_Get(t) ==
    /\ tasks[t].pc = "Get"
    /\ \/ tasks' = [tasks EXCEPT ![t].gets = @ + 1,
                                 ![t].ret = "error",
                                 ![t].pc = "Unlock"]
       \/ IF ~justBecameReady(node, readyTransitionWindow, now)
          THEN tasks' = [tasks EXCEPT ![t].gets = @ + 1,
                                      ![t].node = node,
                                      ![t].fetchedAt = now,
                                      ![t].ret = "nil",
                                      ![t].pc = "Unlock"]
          ELSE tasks' = [tasks EXCEPT ![t].gets = @ + 1,
                                      ![t].node = node,
                                      ![t].fetchedAt = now,
                                      ![t].pulses = @ + 1,
                                      ![t].pc = "runPulse"]
    /\ UNCHANGED <<node, now, loopVars, ctxDone, nodeLocks, pending, discarded,
                   last, envSteps, hist, rp, pkg, lib>>

\* the patches the verdict calls for, computed from the fetched snapshot
Patches(task, at) ==
    IF task.err = nil THEN removeTaint(task.node, at)
    ELSE applyTaint(task.node, task.elapsed, at)

\* ReconcileNode from the return of c.runPulse() on: the counter of the
\* verdict is incremented, removeTaint/applyTaint start
ReconcileNode_verdict(t, r) ==
    LET task == [tasks[t] EXCEPT !.elapsed = r.elapsed, !.err = r.err,
                                 !.incs = @ \o promReason(r.err)]
    IN /\ IF Patches(task, now) = <<>>
          THEN tasks' = [tasks EXCEPT ![t] = [task EXCEPT !.ret = "nil",
                                                          !.pc = "Unlock"]]
          ELSE tasks' = [tasks EXCEPT ![t] = [task EXCEPT !.pc = "Patch"]]
       /\ UNCHANGED <<node, now, loopVars, ctxDone, nodeLocks, pending, discarded,
                      last, envSteps, hist, pkg, lib>>

\* ReconcileNode: c.runPulse() is the injected function and returns
ReconcileNode_runPulse(t) ==
    /\ tasks[t].pc = "runPulse"
    /\ rp.pc = "mock"
    /\ \E r \in PulseResults : ReconcileNode_verdict(t, r)
    /\ UNCHANGED rp

\* a Patch step that tries a failed patch again
ReconcileNode_Patch_retries(t) ==
    /\ tasks[t].pc = "Patch"
    /\ LET ps == Patches(tasks[t], now)
           k  == tasks[t].issued + 1
       IN \/ /\ node' = MergePatch(node, ps[k])
             /\ tasks' = [tasks EXCEPT
                            ![t].patches = @ + 1,
                            ![t].issued = k,
                            ![t].ret = IF k = Len(ps) THEN "nil" ELSE @,
                            ![t].pc = IF k = Len(ps) THEN "Unlock" ELSE "Patch"]
          \/ /\ node' = node
             /\ tasks' = [tasks EXCEPT ![t].patches = @ + 1]
    /\ UNCHANGED <<now, loopVars, ctxDone, nodeLocks, pending, discarded,
                   last, envSteps, hist, rp, pkg, lib>>

\* a Patch step that builds the conditions array from the node as it is
\* stored now
ReconcileNode_Patch_fresh(t) ==
    /\ tasks[t].pc = "Patch"
    /\ LET ps == Patches(tasks[t], now)
           k  == tasks[t].issued + 1
           c  == IF tasks[t].err = nil THEN PulsePassed(now)
                 ELSE StragglerDetected(tasks[t].elapsed, now)
           p  == IF ps[k].sub = "status"
                 THEN [sub |-> "status", body |-> upsertCondition(node.conditions, c)]
                 ELSE ps[k]
       IN \/ /\ node' = MergePatch(node, p)
             /\ tasks' = [tasks EXCEPT
                            ![t].patches = @ + 1,
                            ![t].issued = k,
                            ![t].ret = IF k = Len(ps) THEN "nil" ELSE @,
                            ![t].pc = IF k = Len(ps) THEN "Unlock" ELSE "Patch"]
          \/ /\ node' = node
             /\ tasks' = [tasks EXCEPT ![t].patches = @ + 1,
                                       ![t].ret = "error",
                                       ![t].pc = "Unlock"]
    /\ UNCHANGED <<now, loopVars, ctxDone, nodeLocks, pending, discarded,
                   last, envSteps, hist, rp, pkg, lib>>

\* applyTaint/removeTaint: the next Nodes().Patch call, which may fail
ReconcileNode_Patch(t) ==
    /\ tasks[t].pc = "Patch"
    /\ LET ps == Patches(tasks[t], now)
           k  == tasks[t].issued + 1
       IN \/ /\ node' = MergePatch(node, ps[k])
             /\ tasks' = [tasks EXCEPT
                            ![t].patches = @ + 1,
                            ![t].issued = k,
                            ![t].ret = IF k = Len(ps) THEN "nil" ELSE @,
                            ![t].pc = IF k = Len(ps) THEN "Unlock" ELSE "Patch"]
          \/ /\ node' = node
             /\ tasks' = [tasks EXCEPT ![t].patches = @ + 1,
                                       ![t].ret = "error",
                                       ![t].pc = "Unlock"]
    /\ UNCHANGED <<now, loopVars, ctxDone, nodeLocks, pending, discarded,
                   last, envSteps, hist, rp, pkg, lib>>

\* a tryReconcile that, on its way out, starts the reconciliation of an event
\* that was discarded while it held the lock
tryReconcile_Unlock_replays(t) ==
    /\ tasks[t].pc = "Unlock"
    /\ nodeLocks' = [nodeLocks EXCEPT ![NodeName] = FALSE]
    /\ tasks' = SelectIdx(tasks, [i \in DOMAIN tasks |-> i # t], 1)
    /\ discarded' = FALSE
    /\ pending' = IF discarded THEN pending + 1 ELSE pending
    /\ last' = [ret |-> tasks[t].ret, pulses |-> tasks[t].pulses,
                err |-> tasks[t].err, others |-> OtherTaints(tasks[t].node),
                taints |-> node.taints, straggler |-> StragglerConditions(node)]
    /\ UNCHANGED <<node, now, loopVars, ctxDone, envSteps, hist, rp, pkg, lib>>

\* a tryReconcile that unlocks after ReconcileNode only when it returned nil
tryReconcile_Unlock_onSuccess(t) ==
    /\ tasks[t].pc = "Unlock"
    /\ nodeLocks' = [nodeLocks EXCEPT ![NodeName] = tasks[t].ret # "nil"]
    /\ tasks' = SelectIdx(tasks, [i \in DOMAIN tasks |-> i # t], 1)
    /\ discarded' = FALSE
    /\ last' = [ret |-> tasks[t].ret, pulses |-> tasks[t].pulses,
                err |-> tasks[t].err, others |-> OtherTaints(tasks[t].node),
                taints |-> node.taints, straggler |-> StragglerConditions(node)]
    /\ UNCHANGED <<node, now, loopVars, ctxDone, pending, envSteps, hist, rp, pkg, lib>>

\* tryReconcile: ReconcileNode has returned; the deferred mu.Unlock()
tryReconcile_Unlock(t) ==
    /\ tasks[t].pc = "Unlock"
    /\ nodeLocks' = [nodeLocks EXCEPT ![NodeName] = FALSE]
    /\ tasks' = SelectIdx(tasks, [i \in DOMAIN tasks |-> i # t], 1)
    /\ discarded' = FALSE
    /\ last' = [ret |-> tasks[t].ret, pulses |-> tasks[t].pulses,
                err |-> tasks[t].err, others |-> OtherTaints(tasks[t].node),
                taints |-> node.taints, straggler |-> StragglerConditions(node)]
    /\ UNCHANGED <<node, now, loopVars, ctxDone, pending, envSteps, hist, rp, pkg, lib>>

\* Spec follows run() through MaxSleeps backoff sleeps and stops before the
\* shutdown; it keeps no record of the events
Next ==
    \/ Tick
    \/ \E st \in {ConditionTrue, ConditionFalse, ConditionUnknown} : KubeletSetReady(st)
    \/ run_Watch /\ UNCHANGED hist
    \/ \E ev \in WatchEvents : watchOnce_event(ev) /\ UNCHANGED hist
    \/ watchOnce_closed /\ UNCHANGED hist
    \/ backoff < SleepLimit /\ run_backoff /\ UNCHANGED hist
    \/ tryReconcile
    \/ \E t \in DOMAIN tasks : ReconcileNode_Get(t)
    \/ \E t \in DOMAIN tasks : ReconcileNode_runPulse(t)
    \/ \E t \in DOMAIN tasks : ReconcileNode_Patch(t)
    \/ \E t \in DOMAIN tasks : tryReconcile_Unlock(t)

Spec == Init /\ [][Next]_vars

\* the agent as the only writer of the node: no kubelet report, and no time
\* passing, while it runs
QuietNext ==
    \/ run_Watch /\ UNCHANGED hist
    \/ \E ev \in WatchEvents : watchOnce_event(ev) /\ UNCHANGED hist
    \/ watchOnce_closed /\ UNCHANGED hist
    \/ backoff < SleepLimit /\ run_backoff /\ UNCHANGED hist
    \/ tryReconcile
    \/ \E t \in DOMAIN tasks : ReconcileNode_Get(t)
    \/ \E t \in DOMAIN tasks : ReconcileNode_runPulse(t)
    \/ \E t \in DOMAIN tasks : ReconcileNode_Patch(t)
    \/ \E t \in DOMAIN tasks : tryReconcile_Unlock(t)

QuietSpec == Init /\ [][QuietNext]_vars

(***************************************************************************)
(* The event loop with its record of events, any number of reconnects and  *)
(* the shutdown.  run() and watchOnce() read nothing that ReconcileNode     *)
(* writes, so a dispatched call is followed up to its fetch and the        *)
(* recency gate; a call that goes on to the pulse stays there.             *)
(***************************************************************************)
\* hist after the stream delivered ev and watchOnce dispatched (or not)
Delivered(ev, fired) ==
    IF Handled(ev)
    THEN Append(hist, [status |-> ReadyStatus(node), fired |-> fired])
    ELSE hist

LoopNodes ==
    { freshNode(240),
      \* a node the node controller has lost contact with
      [taints |-> <<OtherTaint>>,
       conditions |-> <<ReadyCondition(ConditionUnknown, 0 - 240), StragglerFalse>>] }

LoopInit ==
    /\ node \in LoopNodes
    /\ Boot
    /\ rp = Injected
    /\ pkg = Defaults

Loop_Watch == run_Watch /\ hist' = <<>>

Loop_event ==
    \E ev \in WatchEvents :
        /\ Handled(ev) => Len(hist) < MaxEvents
        /\ watchOnce_event(ev)
        /\ hist' = Delivered(ev, pending' # pending)

\* the closed channel is the last thing a stream delivers
Loop_closed ==
    /\ watchOnce_closed
    /\ hist' = Append(hist, [status |-> "closed", fired |-> FALSE])

Loop_ctxDone == watchOnce_ctxDone /\ UNCHANGED hist

Loop_backoff == run_backoff /\ UNCHANGED hist

Loop_backoff_ctxDone == run_ctxDone /\ UNCHANGED hist

LoopNext ==
    \/ \E st \in {ConditionTrue, ConditionFalse, ConditionUnknown} : KubeletSetReady(st)
    \/ cancel
    \/ Loop_Watch
    \/ Loop_event
    \/ Loop_closed
    \/ Loop_ctxDone
    \/ Loop_backoff
    \/ Loop_backoff_ctxDone
    \/ tryReconcile
    \/ \E t \in DOMAIN tasks : ReconcileNode_Get(t)
    \/ \E t \in DOMAIN tasks : tryReconcile_Unlock(t)

LoopSpec == LoopInit /\ [][LoopNext]_vars

\* run() is a goroutine of its own and is scheduled; a select takes a ready
\* case, and one that stays ready is taken in the end
LoopFair ==
    /\ LoopSpec
    /\ WF_vars(Loop_Watch)
    /\ WF_vars(Loop_ctxDone)
    /\ WF_vars(Loop_backoff_ctxDone)

(***************************************************************************)
(* The event loop with every delivery of the stream recorded: the event,   *)
(* the node's readiness at the time, the shadow before and after, and      *)
(* whether a reconciliation was dispatched.                                *)
(***************************************************************************)
Filter_Watch == run_Watch /\ hist' = <<>>

Filter_event ==
    \E ev \in WatchEvents :
        /\ Len(hist) < MaxEvents
        /\ watchOnce_event(ev)
        /\ hist' = Append(hist, [ev |-> ev,
                                 ready |-> IsNodeReady(node),
                                 before |-> wasReady,
                                 after |-> wasReady',
                                 fired |-> pending' # pending])

FilterNext ==
    \/ \E st \in {ConditionTrue, ConditionFalse, ConditionUnknown} : KubeletSetReady(st)
    \/ Filter_Watch
    \/ Filter_event
    \/ tryReconcile
    \/ \E t \in DOMAIN tasks : ReconcileNode_Get(t)
    \/ \E t \in DOMAIN tasks : tryReconcile_Unlock(t)

FilterSpec == LoopInit /\ [][FilterNext]_vars

(***************************************************************************)
(* pkg/pulse RunPulse, one external call per step: nvidia-smi, the native  *)
(* library's gpu_device_count, run_gpu_pulse and run_p2p_check.  The lock  *)
(* holder is the only goroutine inside ReconcileNode, so there is one      *)
(* frame.  calls is the record of the external calls of the present (or    *)
(* the last) RunPulse call, observed the samples it gave to the            *)
(* gpu_validator_pulse_duration_seconds and gpu_validator_pulse_cv metrics.*)
(***************************************************************************)
StatsRows ==
    { gpuStats(1980, 1980, 45, 0),      \* healthy
      gpuStats(1980, 1980, 45, 2),      \* uncorrectable ECC errors
      gpuStats(1980, 1980, 71, 0),      \* still hot
      gpuStats(1980, 1980, 71, 2),      \* both
      gpuStats(1980, 1980, 70, 0),      \* at the temperature ceiling
      gpuStats(900, 1981, 45, 0),       \* stuck in a derated state
      gpuStats(990, 1981, 45, 0),       \* at the truncated half of an odd max
      gpuStats(300, 0, 45, 0) }         \* the driver reports no max clock

\* a row as nvidia-smi prints it with --format=csv,noheader,nounits
OutputLine(row) ==
    <<Itoa(row.SMClockMHz), Itoa(row.MaxSMClockMHz), Itoa(row.TempC),
      Itoa(row.ECCErrors)>>

SMILines ==
    {OutputLine(row) : row \in StatsRows}
        \cup {<<Itoa(300), NA, Itoa(45), <<"[">> \o NA \o <<"]">> >>}

\* what the nvidia-smi command can give: a failed exec, no output, a line
\* per visible GPU, a blank line among them, a line without four fields
SMIOutputs ==
    {[err |-> TRUE, lines |-> <<>>], [err |-> FALSE, lines |-> <<>>]}
        \cup {[err |-> FALSE, lines |-> <<a>>] : a \in SMILines}
        \cup {[err |-> FALSE, lines |-> <<a, b>>] : a, b \in SMILines}
        \cup {[err |-> FALSE, lines |-> <<OutputLine(gpuStats(1980, 1980, 45, 0)), <<>>,
                                          OutputLine(gpuStats(1980, 1980, 71, 0))>>],
              [err |-> FALSE, lines |-> <<<<Itoa(900), Itoa(1981), Itoa(71)>>>>],
              [err |-> FALSE, lines |-> <<OutputLine(gpuStats(1980, 1980, 45, 2)),
                                          <<Itoa(1980), Itoa(1980), Itoa(45), Itoa(0),
                                            Itoa(0)>> >>]}

\* what queryAllSMI can return
SMIResults == {queryAllSMI(out) : out \in SMIOutputs}

\* what gpu_device_count() can return: an error, no device, one to three
NativeCounts == {0 - 1, 0, 1, 2, 3}

\* what run_gpu_pulse can return, and how long a run can take
GemmCodes == {GPU_PULSE_OK, GPU_PULSE_ERR_CUDA, GPU_PULSE_ERR_OOM, 7}
RunDurations == {100000, 500000, 503000}

\* what run_p2p_check can return, and the bandwidth it can measure
P2PCodes == {GPU_PULSE_OK, GPU_PULSE_ERR_OOM, GPU_PULSE_ERR_P2P}
Bandwidths == {12, 50, 250}

\* the external calls, as calls records them
SMICall == <<"nvidia-smi">>
CountCall == <<"gpu_device_count">>
GemmCall(dev) == <<"run_gpu_pulse", dev>>
P2PCall(src, dst) == <<"run_p2p_check", src, dst>>

\* RunPulse returns (elapsed, err) from the named stage
Return(f, elapsed, err, stage) ==
    [f EXCEPT !.pc = "return", !.elapsed = elapsed, !.err = err, !.stage = stage]

Max(a, b) == IF a > b THEN a ELSE b

\* ReconcileNode calls c.runPulse, which is pulse.RunPulse: preflight()
RunPulse_preflight(t) ==
    /\ tasks[t].pc = "runPulse"
    /\ rp.pc = "RunPulse"
    /\ \E out \in SMIOutputs :
          LET smi == queryAllSMI(out)
              f == [Wired EXCEPT !.calls = <<SMICall>>, !.probe = <<out>>,
                                 !.blind = smi.err]
              err == preflight(smi)
          IN rp' = IF err # nil THEN Return(f, 0, err, "PREFLIGHT")
                   ELSE [f EXCEPT !.pc = "deviceCount"]
    /\ UNCHANGED <<node, now, loopVars, ctxDone, nodeLocks, pending, tasks, discarded,
                   last, envSteps, hist, pkg, lib>>

\* RunPulse: count := deviceCount(), where gpu_device_count gives one of N
RunPulse_deviceCount_in(N) ==
    /\ rp.pc = "deviceCount"
    /\ \E n \in N :
          rp' = [rp EXCEPT !.pc = IF 0 < deviceCount(n) THEN "gemm" ELSE "clocks",
                           !.probe = <<>>,
                           !.count = deviceCount(n),
                           !.calls = Append(@, CountCall)]
    /\ UNCHANGED <<node, now, loopVars, ctxDone, nodeLocks, pending, tasks, discarded,
                   last, envSteps, hist, pkg, lib>>

RunPulse_deviceCount == RunPulse_deviceCount_in(NativeCounts)

\* the stage after device dev of the loop has passed
AfterDevice(f) ==
    IF f.dev + 1 < f.count THEN "gemm"
    ELSE IF f.count > 1 THEN "p2p"
    ELSE "clocks"

\* runDevicePulse that goes on after a failed run
runDevicePulse_ignoresCode(f, rc, elapsed) ==
    LET g == [f EXCEPT !.calls = Append(@, GemmCall(f.dev)), !.rc = rc,
                       !.durations = Append(@, elapsed)]
        label == ToString(f.dev)
    IN IF Len(g.durations) < pulseRuns THEN g
       ELSE LET st == computeStats(g.durations)
                err == deviceVerdict(st)
                h == [g EXCEPT !.observed =
                          Append(@, [device |-> label, mean |-> st.mean, cv2 |-> st.cv2])]
            IN IF err # nil THEN Return(h, st.mean, err, "DEVICE_LOOP")
               ELSE [h EXCEPT !.worstMean = Max(@, st.mean),
                              !.dev = @ + 1,
                              !.durations = <<>>,
                              !.pc = AfterDevice(h)]

\* runDevicePulse, one run of run_gpu_pulse, and what RunPulse does when
\* runDevicePulse returns: the metrics, then the error or the worst mean
runDevicePulse(f, rc, elapsed) ==
    LET g == [f EXCEPT !.calls = Append(@, GemmCall(f.dev)), !.rc = rc]
        label == ToString(f.dev)
    IN IF rc # GPU_PULSE_OK
       THEN Return([g EXCEPT !.observed =
                       Append(@, [device |-> label, mean |-> elapsed, cv2 |-> <<0, 1>>])],
                   elapsed, gemmError(rc), "DEVICE_LOOP")
       ELSE LET ds == Append(g.durations, elapsed)
            IN IF Len(ds) < pulseRuns THEN [g EXCEPT !.durations = ds]
               ELSE LET st == computeStats(ds)
                        err == deviceVerdict(st)
                        h == [g EXCEPT !.observed =
                                  Append(@, [device |-> label, mean |-> st.mean,
                                             cv2 |-> st.cv2])]
                    IN IF err # nil
                       THEN [Return(h, st.mean, err, "DEVICE_LOOP")
                                EXCEPT !.detail = deviceEvidence(st)]
                       ELSE [h EXCEPT !.worstMean = Max(@, st.mean),
                                      !.dev = @ + 1,
                                      !.durations = <<>>,
                                      !.pc = AfterDevice(h)]

\* RunPulse: the device loop, one timed GEMM pass that takes one of the times D
RunPulse_gemm_in(D) ==
    /\ rp.pc = "gemm"
    /\ \E rc \in GemmCodes, elapsed \in D :
          rp' = runDevicePulse(rp, rc, elapsed)
    /\ UNCHANGED <<node, now, loopVars, ctxDone, nodeLocks, pending, tasks, discarded,
                   last, envSteps, hist, pkg, lib>>

RunPulse_gemm == RunPulse_gemm_in(RunDurations)

\* RunPulse that probes a star from GPU 0 instead of the ring
RunPulse_p2p_star ==
    /\ rp.pc = "p2p"
    /\ \E rc \in P2PCodes, bw \in Bandwidths :
          LET src == 0
              dst == (rp.seg + 1) % rp.count
              f == [rp EXCEPT !.calls = Append(@, P2PCall(src, dst)), !.rc = rc]
              err == checkP2P(rc, bw)
          IN rp' = IF err # nil THEN Return(f, f.worstMean, err, "P2P_RING")
                   ELSE [f EXCEPT !.seg = @ + 1,
                                  !.pc = IF f.seg + 1 < f.count THEN "p2p" ELSE "clocks"]
    /\ UNCHANGED <<node, now, loopVars, ctxDone, nodeLocks, pending, tasks, discarded,
                   last, envSteps, hist, pkg, lib>>

\* RunPulse that goes on to the clocks after a failed ring segment
RunPulse_p2p_goesOn ==
    /\ rp.pc = "p2p"
    /\ \E rc \in P2PCodes, bw \in Bandwidths :
          LET src == rp.seg
              dst == (rp.seg + 1) % rp.count
              f == [rp EXCEPT !.calls = Append(@, P2PCall(src, dst)), !.rc = rc]
              err == checkP2P(rc, bw)
          IN rp' = [f EXCEPT !.seg = @ + 1,
                             !.err = IF f.err = nil THEN err ELSE f.err,
                             !.stage = IF f.err = nil /\ err # nil THEN "P2P_RING" ELSE @,
                             !.pc = IF f.seg + 1 < f.count THEN "p2p" ELSE "clocks"]
    /\ UNCHANGED <<node, now, loopVars, ctxDone, nodeLocks, pending, tasks, discarded,
                   last, envSteps, hist, pkg, lib>>

\* RunPulse: the ring, checkP2P(i, (i+1)%count)
RunPulse_p2p ==
    /\ rp.pc = "p2p"
    /\ \E rc \in P2PCodes, bw \in Bandwidths :
          LET src == rp.seg
              dst == (rp.seg + 1) % rp.count
              f == [rp EXCEPT !.calls = Append(@, P2PCall(src, dst)), !.rc = rc]
              err == checkP2P(rc, bw)
          IN rp' = IF err # nil
                   THEN [Return(f, f.worstMean, err, "P2P_RING")
                            EXCEPT !.detail = p2pEvidence(rc, bw)]
                   ELSE [f EXCEPT !.seg = @ + 1,
                                  !.pc = IF f.seg + 1 < f.count THEN "p2p" ELSE "clocks"]
    /\ UNCHANGED <<node, now, loopVars, ctxDone, nodeLocks, pending, tasks, discarded,
                   last, envSteps, hist, pkg, lib>>

\* RunPulse: validateClocks(), and the return
RunPulse_clocks ==
    /\ rp.pc = "clocks"
    /\ \E out \in SMIOutputs :
          LET smi == queryAllSMI(out)
              f == [rp EXCEPT !.calls = Append(@, SMICall), !.probe = <<out>>]
          IN rp' = IF validateClocks(smi) # nil
                   THEN [Return(f, f.worstMean,
                                PulseFailure(wrapError(ErrStragglerDetected)),
                                "CLOCK_CHECK")
                            EXCEPT !.detail = latencyEvidence(f.worstMean)]
                   ELSE Return(f, f.worstMean, nil, "")
    /\ UNCHANGED <<node, now, loopVars, ctxDone, nodeLocks, pending, tasks, discarded,
                   last, envSteps, hist, pkg, lib>>

\* ReconcileNode: pulse.RunPulse has returned
RunPulse_return(t) ==
    /\ tasks[t].pc = "runPulse"
    /\ rp.pc = "return"
    /\ ReconcileNode_verdict(t, [elapsed |-> rp.elapsed, err |-> rp.err])
    /\ rp' = [rp EXCEPT !.pc = "RunPulse", !.probe = <<>>]

\* ReconcileNode: c.runPulse() is the RunPulse of a build without the cuda tag
RunPulse_stub(t) ==
    /\ tasks[t].pc = "runPulse"
    /\ rp.pc = "stub"
    /\ ReconcileNode_verdict(t, [elapsed |-> 0,
                                 err |-> errorString("built without cuda support")])
    /\ UNCHANGED rp

\* the nodes the pipeline is followed on: inside the ready window with and
\* without the quarantine, and outside it
PulseNodes ==
    { freshNode(240),
      quarantinedNode(240),
      [taints |-> <<OtherTaint>>,
       conditions |-> <<ReadyCondition(ConditionTrue, 0 - 7200), StragglerFalse>>] }

\* a Controller of NewController, or one with an injected pulse function
PulseInit ==
    /\ node \in PulseNodes
    /\ Boot
    /\ rp \in {Wired, Stubbed, Injected}
    /\ pkg = Defaults

\* the agent up to its first dispatch, and the reconciliation it starts
PulseNext ==
    \/ run_Watch /\ UNCHANGED hist
    \/ \E ev \in WatchEvents : watchOnce_event(ev) /\ UNCHANGED hist
    \/ tryReconcile
    \/ \E t \in DOMAIN tasks : ReconcileNode_Get(t)
    \/ \E t \in DOMAIN tasks : ReconcileNode_runPulse(t)
    \/ \E t \in DOMAIN tasks : RunPulse_preflight(t)
    \/ RunPulse_deviceCount
    \/ RunPulse_gemm
    \/ RunPulse_p2p
    \/ RunPulse_clocks
    \/ \E t \in DOMAIN tasks : RunPulse_return(t)
    \/ \E t \in DOMAIN tasks : RunPulse_stub(t)
    \/ \E t \in DOMAIN tasks : ReconcileNode_Patch(t)
    \/ \E t \in DOMAIN tasks : tryReconcile_Unlock(t)

PulseSpec == PulseInit /\ [][PulseNext]_vars

(***************************************************************************)
(* The device loop on a single GPU, with run times fine enough to put the  *)
(* mean and the coefficient of variation on, below and above their limits. *)
(***************************************************************************)
\* 4 x 450ms + 700ms has its mean at the threshold and its cv at 0.2
FineDurations == {100000, 450000, 500000, 503000, 700000}

\* gpu_device_count on a node where one GPU, or none, is visible
SingleCounts == {0 - 1, 0, 1}

DeviceInit ==
    /\ node = freshNode(240)
    /\ Boot
    /\ rp = Wired
    /\ pkg = Defaults

DeviceNext ==
    \/ run_Watch /\ UNCHANGED hist
    \/ \E ev \in WatchEvents : watchOnce_event(ev) /\ UNCHANGED hist
    \/ tryReconcile
    \/ \E t \in DOMAIN tasks : ReconcileNode_Get(t)
    \/ \E t \in DOMAIN tasks : RunPulse_preflight(t)
    \/ RunPulse_deviceCount_in(SingleCounts)
    \/ RunPulse_gemm_in(FineDurations)
    \/ RunPulse_clocks
    \/ \E t \in DOMAIN tasks : RunPulse_return(t)
    \/ \E t \in DOMAIN tasks : ReconcileNode_Patch(t)
    \/ \E t \in DOMAIN tasks : tryReconcile_Unlock(t)

DeviceSpec == DeviceInit /\ [][DeviceNext]_vars

(***************************************************************************)
(* The device loop on a node where the CUDA runtime shows no GPU.          *)
(***************************************************************************)
\* gpu_device_count when cudaGetDeviceCount fails, or finds no device
NoDeviceCounts == {0 - 1, 0}

FloorNext ==
    \/ run_Watch /\ UNCHANGED hist
    \/ \E ev \in WatchEvents : watchOnce_event(ev) /\ UNCHANGED hist
    \/ tryReconcile
    \/ \E t \in DOMAIN tasks : ReconcileNode_Get(t)
    \/ \E t \in DOMAIN tasks : RunPulse_preflight(t)
    \/ RunPulse_deviceCount_in(NoDeviceCounts)
    \/ RunPulse_gemm_in(RunDurations)
    \/ RunPulse_clocks
    \/ \E t \in DOMAIN tasks : RunPulse_return(t)
    \/ \E t \in DOMAIN tasks : ReconcileNode_Patch(t)
    \/ \E t \in DOMAIN tasks : tryReconcile_Unlock(t)

FloorSpec == DeviceInit /\ [][FloorNext]_vars

(***************************************************************************)
(* The native library on its own: each entry point called with the CUDA    *)
(* runtime answering every call site in every way.                         *)
(***************************************************************************)
cudaErrorMemoryAllocation == "cudaErrorMemoryAllocation"

cudaErrorInvalidDevice == "cudaErrorInvalidDevice"

cudaErrorLaunchFailure == "cudaErrorLaunchFailure"

\* run_gpu_pulse: cudaSetDevice, the two malloc calls (TRUE: not NULL), the
\* three cudaMalloc calls, and the copies, launches and synchronisations
GemmOutcomes ==
    [cudaSetDevice : {cudaSuccess, cudaErrorInvalidDevice},
     h_A : BOOLEAN,
     h_B : BOOLEAN,
     d_A : {cudaSuccess, cudaErrorMemoryAllocation},
     d_B : {cudaSuccess, cudaErrorMemoryAllocation},
     d_C : {cudaSuccess, cudaErrorMemoryAllocation},
     kernel : {cudaSuccess, cudaErrorLaunchFailure}]

\* run_p2p_check: the peer query and what it stores, enabling peer access,
\* the two cudaMalloc calls, and the milliseconds between the two events
P2POutcomes ==
    [cudaDeviceCanAccessPeer : {cudaSuccess, cudaErrorInvalidDevice},
     can_access : {0, 1},
     cudaDeviceEnablePeerAccess :
         {cudaSuccess, cudaErrorPeerAccessAlreadyEnabled, cudaErrorInvalidDevice},
     src_buf : {cudaSuccess, cudaErrorMemoryAllocation},
     dst_buf : {cudaSuccess, cudaErrorMemoryAllocation},
     elapsed_ms : {4, 21, 90}]

CountOutcomes ==
    [cudaGetDeviceCount : {cudaSuccess, cudaErrorInvalidDevice}, n : {0, 1, 2}]

NativeInit ==
    /\ node = freshNode(240)
    /\ Boot
    /\ rp = Wired
    /\ pkg = Defaults

Native_gpu_device_count ==
    /\ \E cuda \in CountOutcomes :
          lib' = [fn |-> CountCall, cuda |-> cuda, ret |-> gpu_device_count(cuda)]
    /\ UNCHANGED <<node, now, loopVars, ctxDone, nodeLocks, pending, tasks, discarded,
                   last, envSteps, hist, rp, pkg>>

Native_run_gpu_pulse ==
    /\ \E device_id \in {0, 1}, cuda \in GemmOutcomes :
          lib' = [fn |-> GemmCall(device_id), cuda |-> cuda,
                  ret |-> run_gpu_pulse(device_id, cuda)]
    /\ UNCHANGED <<node, now, loopVars, ctxDone, nodeLocks, pending, tasks, discarded,
                   last, envSteps, hist, rp, pkg>>

Native_run_p2p_check ==
    /\ \E src \in {0, 1}, cuda \in P2POutcomes :
          lib' = [fn |-> P2PCall(src, 1 - src), cuda |-> cuda,
                  ret |-> run_p2p_check(src, 1 - src, cuda)]
    /\ UNCHANGED <<node, now, loopVars, ctxDone, nodeLocks, pending, tasks, discarded,
                   last, envSteps, hist, rp, pkg>>

NativeNext ==
    \/ Native_gpu_device_count
    \/ Native_run_gpu_pulse
    \/ Native_run_p2p_check

NativeSpec == NativeInit /\ [][NativeNext]_vars

(***************************************************************************)
(* Package initialisation under every environment: the overrides are set,  *)
(* then the package-level variables are initialised.                       *)
(***************************************************************************)
\* the values an override is given: in range, zero, negative, not a number,
\* and integers whose product with the unit does not fit an int64
EnvValues ==
    [k \in EnvKeys |->
        IF k = PULSE_THRESHOLD_MS
        THEN { <<"2", "5", "0">>,
               <<"0">>,
               <<"-", "5">>,
               <<"1", "2", "m", "s">>,
               <<"9", "2", "2", "3", "3", "7", "2", "0", "3", "6", "8", "5", "4">>,
               <<"9", "2", "2", "3", "3", "7", "2", "0", "3", "6", "8", "5", "5">>,
               <<"1", "8", "4", "4", "6", "7", "4", "4", "0", "7", "3", "7", "1", "0">>,
               <<"9", "2", "2", "3", "3", "7", "2", "0", "3", "6", "8", "5", "4", "7", "7", "5", "8", "0", "8">> }
        ELSE IF k = PULSE_CV_MAX
        THEN { <<"0", ".", "3", "5">>,
               <<"-", "0", ".", "5">>,
               <<"N", "a", "N">> }
        ELSE IF k = P2P_MIN_GBS
        THEN { <<"1", "2", ".", "5">>,
               <<"0", ".", "0">>,
               <<"+", "I", "n", "f">> }
        ELSE IF k = IDLE_TEMP_MAX
        THEN { <<"8", "5">>,
               <<"0">>,
               <<"7", "x">> }
        ELSE { <<"6", "0", "0">>,
               <<"-", "1">>,
               <<"9", "2", "2", "3", "3", "7", "2", "0", "3", "7">> }]

\* what `nvidia-smi --query-gpu=name` gives: a failed exec, or its output
NameOutputs ==
    {[err |-> TRUE, text |-> <<>>]}
        \cup {[err |-> FALSE, text |-> x] :
                  x \in { <<"H", "1", "0", "0", " ", "P", "C", "I", "e", "\n">>,
                         <<"A", "1", "0", "0", "-", "S", "X", "M", "4", "\n">>,
                         <<"N", "V", "I", "D", "I", "A", " ", "G", "B", "2", "0", "0", "\n">>,
                         <<"n", "v", "i", "d", "i", "a", " ", "h", "2", "0", "0", "\n">>,
                         <<"T", "e", "s", "l", "a", " ", "V", "1", "0", "0", "\n">>,
                         <<" ", "\n">> }}

EnvInit ==
    /\ node = freshNode(240)
    /\ Boot
    /\ rp = Wired
    /\ pkg = Uninitialised(NoEnv)

\* the operator sets an override in the pod's environment
Setenv ==
    /\ ~pkg.init
    /\ \E k \in EnvKeys :
          /\ pkg.env[k] = <<>>
          /\ \E v \in EnvValues[k] : pkg' = [pkg EXCEPT !.env[k] = v]
    /\ UNCHANGED <<node, now, loopVars, ctxDone, nodeLocks, pending, tasks, discarded,
                   last, envSteps, hist, rp, lib>>

\* the process starts: the package-level variables are initialised
package_init ==
    /\ ~pkg.init
    /\ \E out \in NameOutputs : pkg' = Initialised(pkg.env, out)
    /\ UNCHANGED <<node, now, loopVars, ctxDone, nodeLocks, pending, tasks, discarded,
                   last, envSteps, hist, rp, lib>>

EnvNext ==
    \/ Setenv
    \/ package_init

EnvSpec == EnvInit /\ [][EnvNext]_vars

(***************************************************************************)
(* Vocabulary of the properties.                                           *)
(***************************************************************************)
\* ReconcileNode has returned in goroutine t (the lock is still held)
Returned(t) == tasks[t].pc = "Unlock"

\* ... and it returned nil
Succeeded(t) == Returned(t) /\ tasks[t].ret = "nil"

\* ... after the pulse ran
SucceededAfterPulse(t) == Succeeded(t) /\ tasks[t].pulses = 1

\* the node carries a GPUStraggler condition with this status and reason
StragglerIs(n, st, re) ==
    /\ Len(StragglerConditions(n)) = 1
    /\ StragglerConditions(n)[1].status = st
    /\ StragglerConditions(n)[1].reason = re

\* the node carries a GPUStraggler condition with status True
StragglerVisible(n) ==
    \E i \in DOMAIN n.conditions :
        /\ n.conditions[i].type = zombieCondition
        /\ n.conditions[i].status = ConditionTrue

\* the node as fetched has at most one quarantine taint and one GPUStraggler condition
WellFormed(n) ==
    /\ Len(QuarantineTaints(n)) <= 1
    /\ Len(StragglerConditions(n)) <= 1

\* the last call that finished ran the pulse and returned nil
LastSucceededAfterPulse == last.ret = "nil" /\ last.pulses = 1

(***************************************************************************)
(* C1.  After any ReconcileNode call that returns nil, on a node that was  *)
(* fetched with at most one quarantine taint and at most one GPUStraggler  *)
(* condition: 0 or 1 quarantine taints and exactly 1 GPUStraggler          *)
(* condition.                                                              *)
(***************************************************************************)
C1_AsClaimed ==
    \A t \in DOMAIN tasks :
        (Succeeded(t) /\ tasks[t].fetchedAt >= 0 /\ WellFormed(tasks[t].node))
            => /\ Len(QuarantineTaints(node)) <= 1
               /\ Len(StragglerConditions(node)) = 1

\* C1 as amended: 0 or 1 quarantine taints and 0 or 1 GPUStraggler conditions
\* after any successful return; exactly 1 condition when the call issued its
\* status patch.
C1_TaintAndConditionCounts ==
    \A t \in DOMAIN tasks :
        (Succeeded(t) /\ tasks[t].fetchedAt >= 0 /\ WellFormed(tasks[t].node))
            => /\ Len(QuarantineTaints(node)) <= 1
               /\ Len(StragglerConditions(node)) <= 1
               /\ tasks[t].issued = 2 => Len(StragglerConditions(node)) = 1

\* a call that replaced an existing GPUStraggler condition has returned nil
C1_Witness ==
    \E t \in DOMAIN tasks :
        /\ Succeeded(t)
        /\ WellFormed(tasks[t].node)
        /\ tasks[t].issued = 2
        /\ Len(StragglerConditions(tasks[t].node)) = 1
        /\ Len(StragglerConditions(node)) = 1

(***************************************************************************)
(* C2.  A ReconcileNode call whose pulse returned no error and that        *)
(* returns nil leaves no taint with the quarantine key on the node.        *)
(***************************************************************************)
C2_PassLeavesNoQuarantineTaint ==
    \A t \in DOMAIN tasks :
        (SucceededAfterPulse(t) /\ tasks[t].err = nil)
            => Len(QuarantineTaints(node)) = 0

\* a passing call that fetched a quarantined node has returned nil
C2_Witness ==
    \E t \in DOMAIN tasks :
        /\ SucceededAfterPulse(t)
        /\ tasks[t].err = nil
        /\ Len(QuarantineTaints(tasks[t].node)) > 0
        /\ Len(QuarantineTaints(node)) = 0

(***************************************************************************)
(* C3.  A ReconcileNode call whose pulse failed and that returns nil       *)
(* leaves exactly one taint with the quarantine key, of effect NoSchedule, *)
(* whatever node it started from.                                          *)
(***************************************************************************)
ExactlyOneNoSchedule(n) ==
    /\ Len(QuarantineTaints(n)) = 1
    /\ QuarantineTaints(n)[1].effect = TaintEffectNoSchedule

C3_AsClaimed ==
    \A t \in DOMAIN tasks :
        (SucceededAfterPulse(t) /\ tasks[t].err # nil)
            => ExactlyOneNoSchedule(node)

\* C3 as amended: the same, for a node fetched without a quarantine taint
\* or with exactly one, of effect NoSchedule; on every node at least one
\* quarantine taint is left.
C3_FailLeavesOneNoScheduleTaint ==
    \A t \in DOMAIN tasks :
        (SucceededAfterPulse(t) /\ tasks[t].err # nil)
            => /\ Len(QuarantineTaints(node)) >= 1
               /\ (Len(QuarantineTaints(tasks[t].node)) = 0
                      \/ ExactlyOneNoSchedule(tasks[t].node))
                    => ExactlyOneNoSchedule(node)

\* a failing call that fetched an untainted node has returned nil
C3_Witness ==
    \E t \in DOMAIN tasks :
        /\ SucceededAfterPulse(t)
        /\ tasks[t].err # nil
        /\ Len(QuarantineTaints(tasks[t].node)) = 0
        /\ ExactlyOneNoSchedule(node)

(***************************************************************************)
(* C4.  Recency gate: when the fetched node has no Ready=True condition,   *)
(* or that condition's transition is older than the ready window, the call *)
(* returns nil, the pulse is not invoked and no patch is issued.           *)
(***************************************************************************)
\* every Ready=True condition of n is older than the window at time `at`
GateClosed(n, at) ==
    \A i \in DOMAIN n.conditions :
        (n.conditions[i].type = NodeReady /\ n.conditions[i].status = ConditionTrue)
            => at - n.conditions[i].lastTransitionTime > readyTransitionWindow

C4_RecencyGate ==
    \A t \in DOMAIN tasks :
        (tasks[t].fetchedAt >= 0 /\ GateClosed(tasks[t].node, tasks[t].fetchedAt))
            => /\ Succeeded(t)
               /\ tasks[t].pulses = 0
               /\ tasks[t].patches = 0
               /\ tasks[t].issued = 0

\* a call that fetched a node Ready for longer than the window has returned
C4_Witness ==
    \E t \in DOMAIN tasks :
        /\ Returned(t)
        /\ tasks[t].fetchedAt >= 0
        /\ GateClosed(tasks[t].node, tasks[t].fetchedAt)
        /\ IsNodeReady(tasks[t].node)

(***************************************************************************)
(* C5.  Per-node mutual exclusion: at most one goroutine is inside         *)
(* ReconcileNode at any time, and a goroutine that reaches TryLock while   *)
(* the lock is held ends without a fetch, a pulse or a patch: it starts no *)
(* ReconcileNode call and leaves the node and the lock as they are.        *)
(***************************************************************************)
LockHeld == NodeName \in DOMAIN nodeLocks /\ nodeLocks[NodeName]

C5_MutualExclusion ==
    /\ [](Len(tasks) <= 1)
    /\ [][(LockHeld /\ pending' = pending - 1)
             => (tasks' = tasks /\ node' = node /\ nodeLocks' = nodeLocks)]_vars

\* a duplicate ready event has been discarded while a pulse is in flight
C5_Witness ==
    /\ discarded
    /\ Len(tasks) = 1
    /\ tasks[1].pc = "runPulse"

(***************************************************************************)
(* C6.  Round trip: when the call that finished last quarantined the node  *)
(* (its pulse failed, it returned nil) and the next call's pulse passes    *)
(* and it returns nil, the quarantine taint is gone, the GPUStraggler      *)
(* condition is False/PulsePassed, and the taints with other keys are      *)
(* those the quarantining call fetched.                                    *)
(***************************************************************************)
C6_RoundTrip ==
    \A t \in DOMAIN tasks :
        (/\ LastSucceededAfterPulse
         /\ last.err # nil
         /\ SucceededAfterPulse(t)
         /\ tasks[t].err = nil)
            => /\ Len(QuarantineTaints(node)) = 0
               /\ StragglerIs(node, ConditionFalse, "PulsePassed")
               /\ OtherTaints(node) = last.others

\* a node with another taint was quarantined and has then passed
C6_Witness ==
    \E t \in DOMAIN tasks :
        /\ LastSucceededAfterPulse
        /\ last.err # nil
        /\ last.others # <<>>
        /\ Len(last.taints) = Len(last.others) + 1
        /\ SucceededAfterPulse(t)
        /\ tasks[t].err = nil
        /\ node.taints = last.others

(***************************************************************************)
(* C7.  Idempotence: when two calls in sequence both run the pulse, get    *)
(* the same result and return nil, the second issues no patch, and the     *)
(* node's taints and GPUStraggler conditions after it are those after the  *)
(* first.                                                                  *)
(***************************************************************************)
C7_Idempotent ==
    \A t \in DOMAIN tasks :
        (/\ LastSucceededAfterPulse
         /\ SucceededAfterPulse(t)
         /\ tasks[t].err = last.err)
            => /\ tasks[t].patches = 0
               /\ node.taints = last.taints
               /\ StragglerConditions(node) = last.straggler

\* two failing calls in sequence, the first of which applied the taint
C7_Witness ==
    \E t \in DOMAIN tasks :
        /\ LastSucceededAfterPulse
        /\ SucceededAfterPulse(t)
        /\ tasks[t].err = last.err
        /\ last.err = ErrStragglerDetected
        /\ Len(last.taints) = Len(last.others) + 1
        /\ node.taints = last.taints

(***************************************************************************)
(* C8.  After every ReconcileNode call that ran the pulse and returns nil, *)
(* the GPUStraggler condition is False/PulsePassed if the pulse passed and *)
(* True/StragglerDetected if it failed.                                    *)
(***************************************************************************)
C8_ConditionReflectsVerdict ==
    \A t \in DOMAIN tasks :
        (SucceededAfterPulse(t) /\ Len(StragglerConditions(tasks[t].node)) <= 1)
            => IF tasks[t].err = nil
               THEN StragglerIs(node, ConditionFalse, "PulsePassed")
               ELSE StragglerIs(node, ConditionTrue, "StragglerDetected")

(***************************************************************************)
(* C9.  When a quarantined node passes the pulse, no state is visible in   *)
(* which the taint is already removed while the GPUStraggler condition     *)
(* still has status True.                                                  *)
(***************************************************************************)
C9_AtomicClear ==
    \A t \in DOMAIN tasks :
        (/\ tasks[t].pulses = 1
         /\ tasks[t].pc \in {"Patch", "Unlock"}
         /\ tasks[t].err = nil
         /\ Len(QuarantineTaints(tasks[t].node)) > 0)
            => ~(Len(QuarantineTaints(node)) = 0 /\ StragglerVisible(node))

(***************************************************************************)
(* C10.  Quarantine ordering: the status patch of applyTaint follows its   *)
(* spec patch and is issued only if that succeeded, so while and after a   *)
(* quarantining call runs, the GPUStraggler=True condition it writes is    *)
(* only on a node that carries the quarantine taint.                       *)
(***************************************************************************)
C10_SpecBeforeStatus ==
    \A t \in DOMAIN tasks :
        (/\ tasks[t].pulses = 1
         /\ tasks[t].pc \in {"Patch", "Unlock"}
         /\ tasks[t].err # nil)
            => /\ tasks[t].issued = 0 =>
                     StragglerConditions(node) = StragglerConditions(tasks[t].node)
               /\ tasks[t].issued >= 1 => Len(QuarantineTaints(node)) >= 1
               /\ tasks[t].issued = 1 /\ tasks[t].pc = "Unlock" =>
                     /\ tasks[t].ret = "error"
                     /\ StragglerConditions(node) = StragglerConditions(tasks[t].node)
               /\ tasks[t].issued = 2 =>
                     StragglerIs(node, ConditionTrue, "StragglerDetected")

\* the spec patch of a quarantine is in, its status patch is not yet
C10_Witness ==
    \E t \in DOMAIN tasks :
        /\ tasks[t].pc = "Patch"
        /\ tasks[t].err # nil
        /\ tasks[t].issued = 1
        /\ Len(QuarantineTaints(node)) = 1
        /\ ~StragglerVisible(node)

(***************************************************************************)
(* Vocabulary of the event-loop properties: hist[i] is the i-th Added or   *)
(* Modified node event of the present stream, with the Ready status it     *)
(* carried and whether watchOnce dispatched on it.                         *)
(***************************************************************************)
\* the i-th event reported the node ready
EventReady(i) == hist[i].status = ConditionTrue

\* the shadow when the i-th event arrived, if it follows the events
ShadowBefore(i) == IF i = 1 THEN FALSE ELSE EventReady(i - 1)

\* the stream was closed by the server
StreamClosed == hist # <<>> /\ hist[Len(hist)].status = "closed"

(***************************************************************************)
(* C11.  Edge trigger: within one stream a reconciliation is dispatched on *)
(* an Added/Modified node event iff the event reports ready and the shadow *)
(* is false; after the event the shadow is the event's ready value; of a   *)
(* run of consecutive ready events exactly the first dispatches.           *)
(***************************************************************************)
C11_EdgeTrigger ==
    /\ \A i \in DOMAIN hist :
          hist[i].fired <=> (EventReady(i) /\ ~ShadowBefore(i))
    /\ (pc = "select" /\ hist # <<>>) => wasReady = EventReady(Len(hist))
    /\ \A i, j \in DOMAIN hist :
          (i < j /\ \A k \in i..j : EventReady(k)) => ~hist[j].fired

\* two ready events in a row: the first dispatched, the second did not
C11_Witness ==
    /\ pc = "select"
    /\ Len(hist) >= 2
    /\ EventReady(1) /\ EventReady(2)
    /\ hist[1].fired /\ ~hist[2].fired
    /\ pending + Len(tasks) = 1

(***************************************************************************)
(* C12.  Ready status Unknown in the edge detection: Unknown then True     *)
(* dispatches; True, Unknown, True dispatches no second reconciliation.    *)
(***************************************************************************)
C12_AsClaimed ==
    \A i \in DOMAIN hist :
        /\ (i + 1 \in DOMAIN hist
               /\ hist[i].status = ConditionUnknown /\ EventReady(i + 1)
               /\ (i > 1 => ~EventReady(i - 1)))
             => hist[i + 1].fired
        /\ (i + 2 \in DOMAIN hist
               /\ EventReady(i) /\ hist[i + 1].status = ConditionUnknown
               /\ EventReady(i + 2))
             => ~hist[i + 2].fired

\* C12 as amended: Unknown then True dispatches, and so does the last event
\* of True, Unknown, True: the event with status Unknown sets the shadow to
\* false.
C12_UnknownResetsShadow ==
    /\ \A i \in DOMAIN hist :
          /\ (i + 1 \in DOMAIN hist
                 /\ hist[i].status = ConditionUnknown /\ EventReady(i + 1))
               => hist[i + 1].fired
          /\ (i + 2 \in DOMAIN hist
                 /\ EventReady(i) /\ hist[i + 1].status = ConditionUnknown
                 /\ EventReady(i + 2))
               => hist[i + 2].fired
    /\ (pc = "select" /\ hist # <<>> /\ hist[Len(hist)].status = ConditionUnknown)
          => ~wasReady

\* one stream delivered True, Unknown, True and dispatched twice
C12_Witness ==
    /\ Len(hist) = 3
    /\ EventReady(1) /\ hist[2].status = ConditionUnknown /\ EventReady(3)
    /\ hist[1].fired /\ hist[3].fired
    /\ pending + Len(tasks) = 2

(***************************************************************************)
(* C13.  Retry after a failed reconciliation: once ReconcileNode has       *)
(* returned an error because the fetch failed, the next Added/Modified     *)
(* event that reports the node ready leads to a new ReconcileNode call.    *)
(***************************************************************************)
C13_RetryOnNextReadyEvent ==
    [][(/\ last.ret = "error"
        /\ last.pulses = 0
        /\ Len(hist') = Len(hist) + 1
        /\ hist'[Len(hist')].status = ConditionTrue)
          => pending' = pending + 1]_vars

(***************************************************************************)
(* C14.  Cluster-API failures are returned without retry: a failed fetch   *)
(* ends the call with an error, no pulse and no patch; a failed patch ends *)
(* it with an error and no further patch; no call fetches or pulses twice  *)
(* or issues a patch twice.                                                *)
(***************************************************************************)
C14_NoRetry ==
    \A t \in DOMAIN tasks :
        /\ tasks[t].gets <= 1
        /\ tasks[t].pulses <= 1
        /\ tasks[t].patches <= 2
        /\ tasks[t].issued <= tasks[t].patches
        /\ (tasks[t].gets = 1 /\ tasks[t].fetchedAt < 0)
              => /\ Returned(t)
                 /\ tasks[t].ret = "error"
                 /\ tasks[t].pulses = 0
                 /\ tasks[t].patches = 0
        /\ tasks[t].patches > tasks[t].issued
              => /\ Returned(t)
                 /\ tasks[t].ret = "error"
                 /\ tasks[t].patches = tasks[t].issued + 1

\* the status patch of a call failed after its spec patch went through
C14_Witness ==
    \E t \in DOMAIN tasks :
        /\ Returned(t)
        /\ tasks[t].ret = "error"
        /\ tasks[t].issued = 1
        /\ tasks[t].patches = 2

(***************************************************************************)
(* C15.  Reconnect backoff: the delay starts at 1 s, doubles per failure,  *)
(* never exceeds 30 s (1, 2, 4, 8, 16, 30, 30, ...); a cooperative stream  *)
(* close is not a failure, so the sleep after it leaves the delay alone.   *)
(***************************************************************************)
BackoffValues == {1, 2, 4, 8, 16, 30}

C15_AsClaimed ==
    /\ backoff = 1
    /\ [](backoff \in BackoffValues)
    /\ [][(pc = "sleep" /\ pc' = "Watch")
             => backoff' = IF StreamClosed THEN backoff
                           ELSE Min({2 * backoff, 30})]_vars

\* C15 as amended: the delay starts at 1 s, doubles after every sleep, that
\* is per ending of watchOnce, a failed Watch call and a cooperative close
\* alike, and never exceeds 30 s.
C15_Backoff ==
    /\ backoff = 1
    /\ [](backoff \in BackoffValues)
    /\ [][(pc = "sleep" /\ pc' = "Watch") => backoff' = Min({2 * backoff, 30})]_vars
    /\ [][backoff' # backoff => (pc = "sleep" /\ pc' = "Watch")]_vars

\* run sleeps the capped 30 s after a cooperative close
C15_Witness ==
    /\ pc = "sleep"
    /\ backoff = 30
    /\ StreamClosed
    /\ ~ctxDone

(***************************************************************************)
(* C16.  Clean shutdown: once the context is cancelled run() returns in    *)
(* the end, from the Watch call, the event select or the backoff sleep; it *)
(* opens no stream under the cancelled context, and once it has returned   *)
(* it opens none and dispatches nothing.                                   *)
(***************************************************************************)
C16_CleanShutdown ==
    /\ ctxDone ~> pc = "return"
    /\ [][ctxDone => (pc' = "select" => pc = "select")]_vars
    /\ [][pc = "return" => (pc' = "return" /\ pending' <= pending)]_vars
    /\ [](pc = "return" => ctxDone)

\* run has returned after the cancellation reached it past the first stream
C16_Witness ==
    /\ pc = "return"
    /\ ctxDone
    /\ backoff = 4
    /\ pending + Len(tasks) > 0

(***************************************************************************)
(* The pipeline: kinds, stages and the order of the external calls.        *)
(***************************************************************************)
\* the innermost error of a chain
Root(err) == err[Len(err)]

\* the errors preflight() can construct
PreFlightErrors == {preflight(smi) : smi \in SMIResults} \ {nil}

\* the kind of a failure: its sentinel, else PreFlight for an error made by
\* preflight(), else opaque
Kind(err) ==
    IF Root(err) = "ErrStragglerDetected" THEN "LatencyExceeded"
    ELSE IF Root(err) = "ErrHighVariance" THEN "HighVariance"
    ELSE IF Root(err) = "ErrInterconnectDegraded" THEN "InterconnectDegraded"
    ELSE IF err \in PreFlightErrors THEN "PreFlight"
    ELSE "opaque"

\* the last external call RunPulse made
LastCall == rp.calls[Len(rp.calls)]

RECURSIVE GemmCallsFrom(_, _)
\* pulseRuns calls of run_gpu_pulse for each of the devices d..n-1, ascending
GemmCallsFrom(d, n) ==
    IF d >= n THEN <<>>
    ELSE [i \in 1..pulseRuns |-> GemmCall(d)] \o GemmCallsFrom(d + 1, n)

\* the probes of the ring over n devices, none for fewer than two
RingCalls(n) == IF n > 1 THEN [i \in 1..n |-> P2PCall(i - 1, i % n)] ELSE <<>>

\* the external calls of a RunPulse call that passes, over n devices
StageOrder(n) ==
    <<SMICall, CountCall>> \o GemmCallsFrom(0, n) \o RingCalls(n) \o <<SMICall>>

IsPrefix(s, t) == Len(s) <= Len(t) /\ \A i \in DOMAIN s : s[i] = t[i]

\* goroutine t is past the verdict of a pulse it ran
PastVerdict(t) == tasks[t].pc \in {"Patch", "Unlock"} /\ tasks[t].pulses = 1

\* C17: every failure RunPulse returns has a kind that matches the stage it
\* came from: InterconnectDegraded comes from the ring only, after the
\* preflight and every device of two or more passed; HighVariance from the
\* device loop only; LatencyExceeded from the device loop or the clock check
\* only; an error made by preflight() from the preflight stage only.
C17_StageKind ==
    rp.err # nil =>
        LET k == Kind(rp.err)
        IN /\ k = "InterconnectDegraded" =>
                  /\ rp.stage = "P2P_RING"
                  /\ LastCall = P2PCall(rp.seg, (rp.seg + 1) % rp.count)
                  /\ rp.count >= 2
                  /\ rp.dev = rp.count
                  /\ Len(rp.observed) = rp.count
                  /\ IsPrefix(<<SMICall, CountCall>> \o GemmCallsFrom(0, rp.count),
                              rp.calls)
           /\ k = "HighVariance" =>
                  /\ rp.stage = "DEVICE_LOOP"
                  /\ LastCall = GemmCall(rp.dev)
           /\ k = "LatencyExceeded" =>
                  \/ rp.stage = "DEVICE_LOOP" /\ LastCall = GemmCall(rp.dev)
                  \/ rp.stage = "CLOCK_CHECK" /\ LastCall = SMICall /\ Len(rp.calls) > 1
           /\ k = "PreFlight" =>
                  /\ rp.stage = "PREFLIGHT"
                  /\ rp.calls = <<SMICall>>

\* RunPulse has returned an interconnect failure
C17_Witness ==
    /\ rp.pc = "return"
    /\ rp.err # nil
    /\ Kind(rp.err) = "InterconnectDegraded"
    /\ rp.seg = 1

\* C18: RunPulse makes its external calls in the order preflight, device
\* loop, ring, clock check, a passing call makes them all, and the first
\* failing stage ends the pipeline: after a preflight failure there is no
\* GEMM pass, after a device failure no later device, probe or clock query,
\* after a failing segment no later segment or clock query.
C18_OrderAndShortCircuit ==
    /\ [](IF Len(rp.calls) <= 1 THEN IsPrefix(rp.calls, <<SMICall>>)
                                ELSE IsPrefix(rp.calls, StageOrder(rp.count)))
    /\ [](rp.pc = "return" /\ rp.err = nil => rp.calls = StageOrder(rp.count))
    /\ [](rp.stage = "PREFLIGHT" => rp.calls = <<SMICall>>)
    /\ [](rp.stage = "DEVICE_LOOP" => LastCall = GemmCall(rp.dev))
    /\ [](rp.stage = "P2P_RING" => LastCall = P2PCall(rp.seg, (rp.seg + 1) % rp.count))
    /\ [][rp.err # nil => rp'.calls = rp.calls]_vars

\* device 0 of two has failed, and the reconciliation has gone on to its end
C18_Witness ==
    /\ rp.stage = "DEVICE_LOOP"
    /\ rp.count = 2
    /\ rp.dev = 0
    /\ Len(rp.calls) = 2 + pulseRuns
    /\ \E t \in DOMAIN tasks : Returned(t) /\ tasks[t].pulses = 1

\* a run of run_gpu_pulse returned a code other than GPU_PULSE_OK
GemmFailed == rp.stage = "DEVICE_LOOP" /\ rp.rc # GPU_PULSE_OK

\* C19 as stated: return codes 1 and 2 of run_gpu_pulse yield a
\* LatencyExceeded failure, which satisfies the quarantine-cause predicate and
\* is counted as latency_threshold_exceeded; other codes yield an opaque one.
C19_AsClaimed ==
    GemmFailed =>
        IF rp.rc \in {GPU_PULSE_ERR_CUDA, GPU_PULSE_ERR_OOM}
        THEN /\ Kind(rp.err) = "LatencyExceeded"
             /\ IsStragglerErr(rp.err)
             /\ \A t \in DOMAIN tasks :
                    PastVerdict(t) => tasks[t].incs = <<"latency_threshold_exceeded">>
        ELSE Kind(rp.err) = "opaque"

\* C19: every non-zero return code of run_gpu_pulse yields an opaque error
\* that wraps nothing: "cuda error" for code 1, "out of device memory" for
\* code 2, the code itself for any other.  None satisfies the quarantine-cause
\* predicate; each is returned with the time of the failed run and is
\* counted as pre_flight_failure.
C19_NativeCodes ==
    GemmFailed =>
        /\ rp.err = IF rp.rc = GPU_PULSE_ERR_CUDA THEN errorString("cuda error")
                    ELSE IF rp.rc = GPU_PULSE_ERR_OOM
                    THEN errorString("out of device memory")
                    ELSE errorString("gpu_pulse returned code " \o ToString(rp.rc))
        /\ Kind(rp.err) = "opaque"
        /\ Unwrap(rp.err) = nil
        /\ ~errorsAsPulseFailure(rp.err)
        /\ ~IsStragglerErr(rp.err)
        /\ rp.elapsed \in RunDurations
        /\ \A t \in DOMAIN tasks :
               PastVerdict(t) => tasks[t].incs = <<"pre_flight_failure">>

\* a reconciliation has returned whose pulse ended on return code 1
C19_Witness ==
    /\ GemmFailed
    /\ rp.rc = GPU_PULSE_ERR_CUDA
    /\ \E t \in DOMAIN tasks :
           /\ Returned(t)
           /\ tasks[t].err = errorString("cuda error")
           /\ tasks[t].incs = <<"pre_flight_failure">>

\* the reason label of a failure, read off the innermost error
ExpectedLabel(err) ==
    IF Root(err) = "ErrHighVariance" THEN "high_variance"
    ELSE IF Root(err) = "ErrInterconnectDegraded" THEN "interconnect_degraded"
    ELSE IF Root(err) = "ErrStragglerDetected" THEN "latency_threshold_exceeded"
    ELSE "pre_flight_failure"

\* C20: a ReconcileNode call whose pulse failed has incremented
\* gpu_validator_straggler_detected_total once, on the label of the failure's
\* kind (pre_flight_failure for an error of no straggler kind), whether the
\* sentinel came bare or inside a PulseFailure; a call whose pulse passed,
\* that was gated, or that has not reached the verdict has incremented nothing.
C20_CounterLabel ==
    \A t \in DOMAIN tasks :
        IF PastVerdict(t) /\ tasks[t].err # nil
        THEN tasks[t].incs = <<ExpectedLabel(tasks[t].err)>>
        ELSE tasks[t].incs = <<>>

\* a call has returned whose pulse failed on a PulseFailure carrying the
\* interconnect sentinel
C20_Witness ==
    \E t \in DOMAIN tasks :
        /\ Returned(t)
        /\ errorsAsPulseFailure(tasks[t].err)
        /\ Root(tasks[t].err) = "ErrInterconnectDegraded"
        /\ tasks[t].incs = <<"interconnect_degraded">>

\* C22 as stated: in a build without the cuda tag RunPulse returns no
\* error, so a reconciliation of a freshly ready node counts no failure and
\* goes on to removeTaint, never to applyTaint.
C22_StubAlwaysPasses ==
    rp.pc = "stub" =>
        \A t \in DOMAIN tasks :
            PastVerdict(t) =>
                /\ tasks[t].err = nil
                /\ tasks[t].incs = <<>>
                /\ Patches(tasks[t], now) = removeTaint(tasks[t].node, now)

\* the ring probes RunPulse has made, in order
Probes == SelectSeq(rp.calls, LAMBDA c : c[1] = "run_p2p_check")

\* the ring stage of the present (or the last) RunPulse call is over and no
\* segment failed
RingDone ==
    /\ rp.pc \in {"clocks", "return", "RunPulse"}
    /\ rp.stage \in {"", "CLOCK_CHECK"}
    /\ Len(rp.calls) > 1

ClocksQueried ==
    /\ rp.pc = "return"
    /\ rp.probe # <<>>
    /\ Len(rp.calls) > 1
    /\ LastCall = SMICall

\* the rows validateClocks parsed
ClockRows == queryAllSMI(rp.probe[1]).stats

\* C24 as stated: the clock check fails if and only if some device that
\* reports a max SM clock above 0 has 2*sm_clock < max_sm_clock, odd max
\* clocks included; a device with max = 0 is skipped.
C24_ClockFloor ==
    ClocksQueried /\ ~queryAllSMI(rp.probe[1]).err =>
        (rp.stage = "CLOCK_CHECK"
            <=> \E i \in DOMAIN ClockRows :
                    /\ ClockRows[i].MaxSMClockMHz > 0
                    /\ 2 * ClockRows[i].SMClockMHz < ClockRows[i].MaxSMClockMHz)

\* the device loop of the present (or the last) RunPulse call has failed
DeviceLoopFailed == rp.pc \in {"return", "RunPulse"} /\ rp.stage = "DEVICE_LOOP"

\* C26 as stated: when the device loop fails at device d, the duration RunPulse
\* returns with the failure is the worst mean seen so far: never smaller than
\* the largest mean of the devices 0..d-1 that passed.
C26_WorstMeanOnFailure ==
    DeviceLoopFailed =>
        /\ rp.elapsed >= rp.worstMean
        /\ \A i \in 1..rp.dev : rp.elapsed >= rp.observed[i].mean

\* preflight has just looked at the output of its nvidia-smi query
PreflightDone ==
    /\ rp.probe # <<>>
    /\ \/ rp.pc = "deviceCount"
       \/ rp.pc = "return" /\ rp.stage = "PREFLIGHT"

\* the rows preflight parsed
PreflightRows == queryAllSMI(rp.probe[1]).stats

\* the devices preflight rejects
Unfit == {i \in DOMAIN PreflightRows :
             \/ PreflightRows[i].ECCErrors > 0
             \/ PreflightRows[i].TempC > maxIdleTempC}

\* C28: given probe data, preflight passes if and only if every device has an
\* uncorrectable ECC count of 0 and a temperature of at most idle_temp_c;
\* otherwise it fails for the lowest-indexed device that has not, with the
\* ECC failure if that device has both, nothing else of the pipeline runs,
\* and the failure is not a quarantine cause.
C28_PreflightDecision ==
    PreflightDone /\ ~rp.blind =>
        /\ rp.pc = "deviceCount" <=> Unfit = {}
        /\ Unfit # {} =>
               LET d == CHOOSE i \in Unfit : \A j \in Unfit : i <= j
               IN /\ rp.err = errorString(
                                  "pre-flight GPU " \o ToString(d - 1) \o
                                  (IF PreflightRows[d].ECCErrors > 0
                                   THEN ": uncorrectable ECC error(s)"
                                   ELSE ": idle temperature"))
                  /\ ~IsStragglerErr(rp.err)
                  /\ rp.calls = <<SMICall>>
                  /\ rp.elapsed = 0

\* preflight has failed for the second of two devices, which is both hot and
\* reports ECC errors, after a healthy first
C28_Witness ==
    /\ PreflightDone
    /\ ~rp.blind
    /\ Unfit = {2}
    /\ PreflightRows[2].ECCErrors > 0
    /\ PreflightRows[2].TempC > maxIdleTempC
    /\ rp.stage = "PREFLIGHT"

\* the nvidia-smi output the stage at hand looked at gave queryAllSMI an
\* error: the command failed, or a line of it has not four fields
Unprobed ==
    /\ rp.probe # <<>>
    /\ \/ rp.probe[1].err
       \/ \E i \in DOMAIN rp.probe[1].lines : Len(rp.probe[1].lines[i]) \notin {0, 4}

\* C29: when nvidia-smi is absent, fails, or prints a record without four
\* fields, preflight and the clock check pass: after such a preflight the
\* pipeline goes on to the device loop and the ring and no PreFlight failure
\* is returned, and when the clock check is reached without probe data
\* either, RunPulse has made every call of a passing run and returns
\* (worst mean, nil), so that only a native GEMM or P2P result fails the pulse.
C29_ProbeUnavailable ==
    /\ PreflightDone /\ Unprobed => rp.blind /\ rp.pc = "deviceCount"
    /\ rp.blind => rp.stage \in {"", "DEVICE_LOOP", "P2P_RING", "CLOCK_CHECK"}
    /\ ClocksQueried /\ Unprobed =>
           /\ rp.stage = ""
           /\ rp.err = nil
           /\ rp.elapsed = rp.worstMean
           /\ rp.calls = StageOrder(rp.count)
    /\ rp.blind /\ rp.pc = "return" /\ (LastCall = SMICall => Unprobed) =>
           /\ rp.stage \in {"", "DEVICE_LOOP", "P2P_RING"}
           /\ rp.stage = "" <=> rp.calls = StageOrder(rp.count)
           /\ rp.stage = "DEVICE_LOOP" => LastCall[1] = "run_gpu_pulse"
           /\ rp.stage = "P2P_RING" => LastCall[1] = "run_p2p_check"

\* the pipeline has passed over two devices with a three-field record at the
\* clock check, after a preflight without probe data
C29_Witness ==
    /\ ClocksQueried
    /\ rp.blind
    /\ ~rp.probe[1].err
    /\ \E i \in DOMAIN rp.probe[1].lines : Len(rp.probe[1].lines[i]) = 3
    /\ rp.count = 2
    /\ rp.calls = StageOrder(2)
    /\ rp.err = nil

\* the statistics of the device the loop judged last
Judged == rp.observed[Len(rp.observed)]

\* C27: a device whose five runs all returned 0 fails with LatencyExceeded if
\* its mean is above the latency threshold, else with HighVariance if its cv
\* is above cv_max, else it passes: both limits exceeded give
\* LatencyExceeded, and a mean or a cv equal to its limit passes.
C27_VerdictPrecedence ==
    /\ \A i \in 1..rp.dev :
           /\ rp.observed[i].mean <= stragglerThreshold
           /\ ~cvExceeds(rp.observed[i].cv2)
    /\ rp.stage = "DEVICE_LOOP" /\ rp.rc = GPU_PULSE_OK =>
           /\ rp.dev = Len(rp.observed) - 1
           /\ rp.elapsed = Judged.mean
           /\ Judged.mean > stragglerThreshold => Kind(rp.err) = "LatencyExceeded"
           /\ Judged.mean <= stragglerThreshold =>
                  Kind(rp.err) = "HighVariance" /\ cvExceeds(Judged.cv2)
    /\ rp.pc \in {"p2p", "clocks"} => rp.dev = rp.count /\ Len(rp.observed) = rp.count

\* a device has passed with its mean equal to the threshold and its cv equal
\* to cv_max
C27_Witness ==
    /\ rp.pc = "clocks"
    /\ rp.dev = 1
    /\ rp.observed[1].mean = stragglerThreshold
    /\ rp.observed[1].cv2[1] > 0
    /\ rp.observed[1].cv2[1] * maxCoefficientOfVarDen * maxCoefficientOfVarDen
           = rp.observed[1].cv2[2] * maxCoefficientOfVarNum * maxCoefficientOfVarNum

\* C30: an event whose type is neither Added nor Modified, or whose payload is
\* not a node object, dispatches no reconciliation and leaves the ready
\* shadow as it was.
C30_FilteredEvents ==
    \A i \in DOMAIN hist :
        hist[i].ev.type \notin {"ADDED", "MODIFIED"} \/ ~hist[i].ev.isNode =>
            /\ ~hist[i].fired
            /\ hist[i].after = hist[i].before

\* one stream has delivered a Deleted event while the shadow was set and an
\* event without a node while the node was ready and the shadow clear
C30_Witness ==
    /\ \E i \in DOMAIN hist :
           hist[i].ev.type = "DELETED" /\ hist[i].before /\ ~hist[i].ready
    /\ \E i \in DOMAIN hist :
           ~hist[i].ev.isNode /\ hist[i].ready /\ ~hist[i].before

\* the library has returned from this entry point
Called(name) == lib.fn # <<>> /\ lib.fn[1] = name

\* C25 as stated: run_gpu_pulse returns 0 on success, 1 on a driver error and
\* 2 on every allocation failure, of host or of device memory;
\* run_p2p_check returns 0 on success, 3 when peer access is unavailable and
\* 2 on an allocation failure; no allocation failure returns 1.
C25_ReturnCodes ==
    /\ Called("run_gpu_pulse") =>
           LET c == lib.cuda
               allocated == /\ c.h_A /\ c.h_B
                            /\ c.d_A = cudaSuccess
                            /\ c.d_B = cudaSuccess
                            /\ c.d_C = cudaSuccess
           IN lib.ret.rc = IF c.cudaSetDevice # cudaSuccess THEN GPU_PULSE_ERR_CUDA
                           ELSE IF ~allocated THEN GPU_PULSE_ERR_OOM
                           ELSE GPU_PULSE_OK
    /\ Called("run_p2p_check") =>
           LET c == lib.cuda
               peer == /\ c.cudaDeviceCanAccessPeer = cudaSuccess
                       /\ c.can_access # 0
                       /\ c.cudaDeviceEnablePeerAccess
                              \in {cudaSuccess, cudaErrorPeerAccessAlreadyEnabled}
           IN lib.ret.rc = IF ~peer THEN GPU_PULSE_ERR_P2P
                           ELSE IF c.src_buf # cudaSuccess \/ c.dst_buf # cudaSuccess
                           THEN GPU_PULSE_ERR_OOM
                           ELSE GPU_PULSE_OK

\* the override of this variable parses as an integer and is positive
IntOverride(k) ==
    /\ pkg.env[k] # <<>>
    /\ ParseInt(pkg.env[k]).err = ""
    /\ IntPositive(ParseInt(pkg.env[k]).v)

\* the override of this variable parses as a float and is positive
FloatOverride(k) ==
    /\ pkg.env[k] # <<>>
    /\ ParseFloat(pkg.env[k]).err = ""
    /\ FloatPositive(ParseFloat(pkg.env[k]).v)

\* C21 as stated: each resolved field is the parsed value if the override
\* parses and is positive, and the calibrated or fallback default otherwise;
\* ThresholdMS() returns the parsed integer for every positive 64-bit value
\* of PULSE_THRESHOLD_MS.
C21_OverrideResolution ==
    pkg.init =>
        /\ IF IntOverride(PULSE_THRESHOLD_MS)
           THEN ThresholdMS(pkg) = ParseInt(pkg.env[PULSE_THRESHOLD_MS]).v
           ELSE pkg.stragglerThreshold = detectGPUThreshold(pkg.name)
        /\ IF IntOverride(READY_WINDOW_SECONDS)
           THEN WholeSeconds(pkg.readyTransitionWindow)
                    = ParseInt(pkg.env[READY_WINDOW_SECONDS]).v
           ELSE WholeSeconds(pkg.readyTransitionWindow)
                    = Signed(FALSE, ToBytes(readyTransitionWindow))
        /\ pkg.maxIdleTempC = IF IntOverride(IDLE_TEMP_MAX)
                              THEN ParseInt(pkg.env[IDLE_TEMP_MAX]).v
                              ELSE Signed(FALSE, ToBytes(maxIdleTempC))
        /\ pkg.maxCoefficientOfVar
               = IF FloatOverride(PULSE_CV_MAX)
                 THEN ParseFloat(pkg.env[PULSE_CV_MAX]).v
                 ELSE Float(FALSE, maxCoefficientOfVarNum, maxCoefficientOfVarDen)
        /\ pkg.minP2PBandwidthGBs
               = IF FloatOverride(P2P_MIN_GBS)
                 THEN ParseFloat(pkg.env[P2P_MIN_GBS]).v
                 ELSE Float(FALSE, minP2PBandwidthGBs, 10)

\* a reconciliation is waiting for its pulse to return
PulseInFlight == \E t \in DOMAIN tasks : tasks[t].pc = "runPulse"

\* C31: the event loop never blocks on a reconciliation.  While a pulse is in
\* flight the loop takes whatever its select offers: every event of the
\* stream (a dispatch is one more goroutine, within the number followed
\* here), the close of the stream and the cancellation; it leaves the
\* backoff sleep and reopens the watch; and no step of the loop touches the
\* running reconciliations or the locks.
C31_LoopNeverBlocks ==
    /\ [](PulseInFlight /\ pc = "select" =>
             /\ \A ev \in WatchEvents :
                    (Handled(ev) => /\ Len(hist) < MaxEvents
                                    /\ pending + Len(tasks) < MaxTasks)
                        => ENABLED (watchOnce_event(ev) /\ hist' = hist)
             /\ ENABLED Loop_closed
             /\ ctxDone => ENABLED Loop_ctxDone)
    /\ [](PulseInFlight /\ pc = "sleep" =>
             /\ ENABLED Loop_backoff
             /\ ctxDone => ENABLED Loop_backoff_ctxDone)
    /\ [](PulseInFlight /\ pc = "Watch" => ENABLED Loop_Watch)
    /\ [][<<pc, wasReady, backoff>>' # <<pc, wasReady, backoff>> \/ pending' > pending
             => tasks' = tasks /\ nodeLocks' = nodeLocks /\ node' = node]_vars

\* with a pulse in flight the loop has seen the node go not-ready and ready
\* again, and the goroutine started for the second edge has found the lock
\* held and has gone
C31_Witness ==
    /\ PulseInFlight
    /\ pc = "select"
    /\ Len(hist) = 3
    /\ hist[1].fired /\ ~hist[2].fired /\ hist[3].fired
    /\ discarded
    /\ pending = 0

\* the conditions of a node object of another type than GPUStraggler, in order
OtherConditions(n) ==
    SelectIdx(n.conditions,
              [i \in DOMAIN n.conditions |-> n.conditions[i].type # zombieCondition], 1)

\* C32: with no other writer, at every point of a reconciliation the node
\* differs from the fetched snapshot only in the quarantine taint and the
\* GPUStraggler condition: the taints with other keys and the conditions of
\* other types are those of the snapshot, same content, same order; every
\* position of the snapshot's conditions keeps its type, so a GPUStraggler
\* condition is replaced where it was, and a condition is added only as a
\* GPUStraggler condition in the last place when the snapshot had none.
C32_Frame ==
    \A t \in DOMAIN tasks :
        tasks[t].fetchedAt >= 0 =>
            LET snap == tasks[t].node
            IN /\ OtherTaints(node) = OtherTaints(snap)
               /\ OtherConditions(node) = OtherConditions(snap)
               /\ \A i \in DOMAIN snap.conditions :
                      /\ i \in DOMAIN node.conditions
                      /\ node.conditions[i].type = snap.conditions[i].type
                      /\ snap.conditions[i].type # zombieCondition
                             => node.conditions[i] = snap.conditions[i]
               /\ \/ Len(node.conditions) = Len(snap.conditions)
                  \/ /\ Len(node.conditions) = Len(snap.conditions) + 1
                     /\ node.conditions[Len(node.conditions)].type = zombieCondition
                     /\ StragglerConditions(snap) = <<>>
               /\ tasks[t].issued = 2 => Len(StragglerConditions(node)) >= 1

\* a reconciliation has cleared a node whose GPUStraggler condition comes
\* before its Ready condition and which carries a taint of another key
C32_Witness ==
    \E t \in DOMAIN tasks :
        /\ tasks[t].pc = "Unlock"
        /\ tasks[t].ret = "nil"
        /\ tasks[t].issued = 2
        /\ tasks[t].node.conditions[1].type = zombieCondition
        /\ Len(node.conditions) = 2
        /\ node.conditions[1] = PulsePassed(now)
        /\ node.conditions[2].type = NodeReady
        /\ node.taints = <<OtherTaint>>

\* the condition the verdict of this reconciliation records at time `at`
VerdictCondition(task, at) ==
    IF task.err = nil THEN PulsePassed(at) ELSE StragglerDetected(task.elapsed, at)

\* C33: a patch is built from the snapshot fetched before the pulse and
\* replaces the whole array, whatever the stored node holds by then: the
\* spec patch stores the snapshot's taints without or with the quarantine
\* taint, the status patch stores the snapshot's conditions with the
\* GPUStraggler condition upserted, and the call has fetched once.  What
\* another writer stored in that array since the fetch is gone.
C33_StaleSnapshot ==
    [][\A t \in DOMAIN tasks :
          t \in DOMAIN tasks' /\ tasks'[t].issued = tasks[t].issued + 1 =>
              LET snap == tasks[t].node
              IN /\ tasks'[t].gets = 1
                 /\ IF tasks'[t].issued = 1
                    THEN /\ node'.taints =
                                IF tasks[t].err = nil THEN OtherTaints(snap)
                                ELSE Append(snap.taints,
                                            Taint(zombieTaintKey,
                                                  DurationString(tasks[t].elapsed),
                                                  TaintEffectNoSchedule))
                         /\ node'.conditions = node.conditions
                    ELSE /\ node'.conditions =
                                upsertCondition(snap.conditions,
                                                VerdictCondition(tasks[t], now))
                         /\ node'.taints = node.taints]_vars

\* ReconcileNode is about to return nil after both patches, the kubelet has
\* reported a new Ready status at time 0 in between, and the node's Ready
\* condition is the one of the snapshot again
C33_Witness ==
    \E t \in DOMAIN tasks :
        /\ tasks[t].pc = "Unlock"
        /\ tasks[t].ret = "nil"
        /\ tasks[t].issued = 2
        /\ envSteps = 1
        /\ now = 0
        /\ ReadyStatus(node) = ConditionTrue
        /\ \A i \in DOMAIN node.conditions :
               node.conditions[i].type = NodeReady
                   => node.conditions[i].lastTransitionTime < 0

\* the node carries a taint with the quarantine key
Quarantined(n) == QuarantineTaints(n) # <<>>

\* the spec patch of goroutine t went through, its status patch failed, and
\* ReconcileNode is returning the error
PartlyPatched(t) ==
    /\ tasks[t].pc = "Unlock"
    /\ tasks[t].ret = "error"
    /\ tasks[t].issued = 1

\* the call that finished last ran the pulse, returned an error and left the
\* quarantine taint as its verdict wants it: its status patch failed
LastPartlyPatched ==
    /\ last.ret = "error"
    /\ last.pulses = 1
    /\ (last.err # nil) <=> Quarantined([taints |-> last.taints, conditions |-> <<>>])

\* C34 as stated: a call whose spec patch succeeds and whose status patch
\* fails leaves the taint present without GPUStraggler=True after a
\* quarantine, and the taint absent with GPUStraggler=True after a clear.
C34_AsClaimed ==
    \A t \in DOMAIN tasks :
        PartlyPatched(t) =>
            IF tasks[t].err # nil
            THEN Quarantined(node)
                 /\ ~\E i \in DOMAIN node.conditions :
                        /\ node.conditions[i].type = zombieCondition
                        /\ node.conditions[i].status = ConditionTrue
            ELSE ~Quarantined(node)
                 /\ \E i \in DOMAIN node.conditions :
                        /\ node.conditions[i].type = zombieCondition
                        /\ node.conditions[i].status = ConditionTrue

\* C34: a call whose spec patch succeeds and whose status patch fails returns
\* an error with the taint as the verdict wants it and the GPUStraggler
\* conditions as they were fetched; the next call that reaches the same
\* verdict returns nil without issuing a patch, so the node stays as the
\* failed call left it.
C34_PartialNotRepaired ==
    \A t \in DOMAIN tasks :
        /\ PartlyPatched(t) =>
               /\ Quarantined(node) <=> tasks[t].err # nil
               /\ StragglerConditions(node) = StragglerConditions(tasks[t].node)
               /\ tasks[t].patches = 2
        /\ /\ LastPartlyPatched
           /\ tasks[t].pc \in {"Patch", "Unlock"}
           /\ tasks[t].pulses = 1
           /\ (tasks[t].err = nil) <=> (last.err = nil)
           => /\ tasks[t].pc = "Unlock"
              /\ tasks[t].ret = "nil"
              /\ tasks[t].patches = 0
              /\ node.taints = last.taints
              /\ StragglerConditions(node) = last.straggler

\* a clear whose status patch failed has left GPUStraggler=True on a node
\* without the taint, and the next passing pulse has changed nothing
C34_Witness ==
    \E t \in DOMAIN tasks :
        /\ LastPartlyPatched
        /\ last.err = nil
        /\ tasks[t].pc = "Unlock"
        /\ tasks[t].pulses = 1
        /\ tasks[t].err = nil
        /\ tasks[t].ret = "nil"
        /\ ~Quarantined(node)
        /\ StragglerIs(node, ConditionTrue, "StragglerDetected")

\* C35: the ready shadow belongs to one watch stream.  Every stream opens
\* with the shadow clear, so the first Added or Modified event of a stream
\* that reports the node ready dispatches a reconciliation whether or not
\* the node's readiness changed, and the pulses that follow run one at a
\* time.
C35_ShadowPerStream ==
    /\ [][pc = "Watch" /\ pc' = "select" => ~wasReady']_vars
    /\ [](pc = "select" /\ ~wasReady /\ IsNodeReady(node)
            /\ pending + Len(tasks) < MaxTasks
              => ENABLED (/\ watchOnce_event([type |-> "MODIFIED", isNode |-> TRUE])
                          /\ pending' = pending + 1
                          /\ hist' = hist))
    /\ [](Cardinality({t \in DOMAIN tasks : tasks[t].pc \in {"runPulse", "Patch"}}) <= 1)

\* the node has been Ready since before the agent started and nothing has
\* happened to it or to the clock; one reconciliation has run the pulse and
\* returned, the stream has been reopened, and a second one has run the pulse
C35_Witness ==
    \E t \in DOMAIN tasks :
        /\ envSteps = 0
        /\ last.pulses = 1
        /\ last.ret = "nil"
        /\ tasks[t].pulses = 1
        /\ tasks[t].pc = "Unlock"
        /\ backoff > initialBackoff

\* the lastTransitionTime of the first Ready condition of n
ReadySince(n) ==
    LET hits == {i \in DOMAIN n.conditions : n.conditions[i].type = NodeReady}
    IN n.conditions[Min(hits)].lastTransitionTime

\* C36: a ready event that finds the node's lock held is dropped for good.
\* The step that drops it starts nothing and writes nothing, the step that
\* ends a reconciliation starts none and queues none, and a reconciliation is
\* dispatched only by an event that takes the stream's shadow from false to
\* true, the shadow going back to false only on an event that reports the
\* node not ready or at the end of the stream.
C36_NoReplay ==
    /\ [][~discarded /\ discarded'
            => pending' = pending - 1 /\ tasks' = tasks /\ node' = node]_vars
    /\ [][Len(tasks') < Len(tasks)
            => pending' = pending /\ Len(tasks') = Len(tasks) - 1 /\ ~discarded']_vars
    /\ [][pending' > pending => ~wasReady /\ wasReady' /\ pc = "select"]_vars
    /\ [][wasReady /\ ~wasReady'
            => pc = "select" /\ (pc' # "select" \/ ~IsNodeReady(node))]_vars

\* on the first stream the node went not ready and ready again while a
\* reconciliation was in flight; the event of the second ready edge has been
\* discarded, and the reconciliation, which fetched the node before that
\* edge, has run its pulse and patched the node
C36_Witness ==
    \E t \in DOMAIN tasks :
        /\ discarded
        /\ pending = 0
        /\ pc = "select"
        /\ backoff = initialBackoff
        /\ wasReady
        /\ IsNodeReady(node)
        /\ tasks[t].pc = "Unlock"
        /\ tasks[t].pulses = 1
        /\ tasks[t].ret = "nil"
        /\ tasks[t].issued > 0
        /\ ReadySince(tasks[t].node) < ReadySince(node)

\* the delay run() holds after n waits
BackoffAfter(n) == Min({2 ^ n, maxBackoff})

\* C37: the reconnect delay is never reset.  It never decreases; no step of a
\* stream, however many events the stream delivers, touches it; after n waits
\* it is min(2^n, 30) s, whichever way the streams before ended, so the
\* waits are 1, 2, 4, 8 and 16 s and every wait from the sixth on is 30 s.
C37_NeverReset ==
    /\ [][backoff' >= backoff]_vars
    /\ [][(pc = "Watch" \/ pc = "select") => backoff' = backoff]_vars
    /\ [](\E n \in 0..5 : backoff = BackoffAfter(n))
    /\ [][pc = "sleep" /\ pc' = "Watch"
            => \A n \in 0..5 : backoff = BackoffAfter(n)
                                  => backoff' = BackoffAfter(Min({n + 1, 5}))]_vars
    /\ [][backoff = maxBackoff => backoff' = maxBackoff]_vars

\* run is in a 30 s wait that follows a stream which delivered MaxEvents
\* node events, dispatched a reconciliation and was closed by the server
C37_Witness ==
    /\ pc = "sleep"
    /\ backoff = maxBackoff
    /\ ~ctxDone
    /\ Len(hist) = MaxEvents + 1
    /\ hist[Len(hist)].status = "closed"
    /\ \E i \in DOMAIN hist : hist[i].fired

\* RunPulse has returned a PulseFailure for latency: its unit is ms
LatencyCarrier == rp.pc = "return" /\ rp.detail.unit = "ms"

Counted == \E i \in DOMAIN rp.calls : rp.calls[i] = CountCall

\* the GEMM passes of the present (or the last) RunPulse call
Passes == SelectSeq(rp.calls, LAMBDA c : c[1] = "run_gpu_pulse")

\* C39: when gpu_device_count reports an error (-1) or no device (0), the
\* count is 1.  The device loop runs on device 0 and on no other, all five
\* passes of it before the pipeline goes past the loop; the ring stage is
\* never entered and no P2P probe is made; and what RunPulse returns from the
\* loop on is decided by device 0 alone.
C39_CountFloor ==
    /\ Counted => rp.count = 1
    /\ \A i \in DOMAIN Passes : Passes[i] = GemmCall(0)
    /\ Len(Passes) <= pulseRuns
    /\ rp.pc # "p2p"
    /\ Probes = <<>>
    /\ rp.pc = "clocks" \/ (rp.pc = "return" /\ rp.stage \in {"CLOCK_CHECK", ""})
          => Len(Passes) = pulseRuns
    /\ rp.pc = "return" /\ Counted =>
          /\ Len(Passes) >= 1
          /\ Len(rp.observed) = 1
          /\ rp.observed[1].device = "0"
          /\ rp.elapsed = rp.observed[1].mean
          /\ rp.stage # "P2P_RING"

\* on a node without a visible GPU the pipeline has passed: one nvidia-smi
\* query, the device count, five GEMM passes on device 0, one nvidia-smi
\* query
C39_Witness ==
    /\ rp.pc = "return"
    /\ rp.err = nil
    /\ rp.calls = <<SMICall, CountCall>> \o [i \in 1..pulseRuns |-> GemmCall(0)]
                      \o <<SMICall>>

\* nodeLocks has an entry for the node
LockKnown == NodeName \in DOMAIN nodeLocks

\* a step of the reconciliation in flight
ReconcileStep ==
    \E t \in DOMAIN tasks :
        \/ ReconcileNode_Get(t)
        \/ ReconcileNode_runPulse(t)
        \/ ReconcileNode_Patch(t)
        \/ tryReconcile_Unlock(t)

\* C40: the lock of the node.  Its entry in nodeLocks is made by the first
\* tryReconcile and stays; it is held exactly while a reconciliation is in
\* flight; the step that ends a reconciliation, whatever ReconcileNode
\* returned, leaves it free; a reconciliation in flight can always take its
\* next step, and a dispatched event that finds the lock free starts one.
C40_LockDiscipline ==
    /\ [][LockKnown => LockKnown']_vars
    /\ [][~LockKnown /\ LockKnown' => pending' = pending - 1]_vars
    /\ [](LockHeld <=> Len(tasks) = 1)
    /\ [](Len(tasks) <= 1)
    /\ [][Len(tasks') < Len(tasks) => LockKnown' /\ ~nodeLocks'[NodeName]]_vars
    /\ [](LockHeld => ENABLED ReconcileStep)
    /\ [](~LockHeld /\ pending > 0
            => ENABLED (tryReconcile /\ Len(tasks') = 1 /\ nodeLocks'[NodeName]))

\* a reconciliation ran the pulse and ended in a patch error; the event of
\* the next ready edge has taken the lock and its reconciliation has fetched
\* the node
C40_Witness ==
    /\ last.ret = "error"
    /\ last.pulses = 1
    /\ LockHeld
    /\ Len(tasks) = 1
    /\ tasks[1].gets = 1
    /\ tasks[1].pc = "runPulse"

====
